---- MODULE Spec2Model ----
(***************************************************************************)
(* Model of the flowchart parser (src/unnamed/part_003, flowchartParser):  *)
(* decodeDiagramContent, parseDrawioXml, extractFlowchartElements,         *)
(* analyzeFlowchart.  Texts are TLA+ strings handled character by          *)
(* character; binary data (the output of atob, the input and output of     *)
(* pako) are sequences of byte values 0..255.                              *)
(***************************************************************************)
EXTENDS Integers, Sequences, FiniteSets, TLC

VARIABLES
    pako,       \* behaviour of the pako build on a truncated deflate stream
    fixture,    \* how the input of the call was built (history, not read by the code)
    data,       \* decodeDiagramContent: argument
    decoded,    \* decodeDiagramContent: outcome
    rawInput,   \* parseDrawioXml: argument
    parsed,     \* parseDrawioXml: outcome
    docInput,   \* extractFlowchartElements: argument
    extracted,  \* extractFlowchartElements: outcome
    elementsInput,   \* analyzeFlowchart: argument
    analyzed,   \* analyzeFlowchart: outcome
    svgInput,   \* extractXmlFromSvg: argument
    svgXml,     \* extractXmlFromSvg: outcome
    editorXml,          \* App: the drawing as it stands in the editor
    flowchartXml,       \* App: state flowchartXml
    analysisHasErrors,  \* App: state analysisHasErrors
    selectedLanguage,   \* App: state selectedLanguage
    isGeneratingCode,   \* App: state isGeneratingCode
    analyzeCall,        \* App: position of handleAnalyzeFlowchart
    generateCall,       \* App: position of handleGenerateCode
    lastAnalysis,       \* App: the most recent completed analysis (history)
    lastRequest,        \* App: the most recent code generation request (history)
    classifyInput,      \* determineNodeType: arguments
    nodeType,           \* determineNodeType: outcome
    valueInput,         \* analyzeNodeContent: argument
    contentDetected,    \* analyzeNodeContent: outcome
    now,                \* FlowchartEditor: the clock, in milliseconds
    drawio,             \* FlowchartEditor: the embedded editor behind drawioRef
    currentXml,         \* FlowchartEditor: state currentXml
    capturePromiseResolver,  \* FlowchartEditor: the pending-capture slot
    captures,           \* FlowchartEditor: the captureCurrentState calls made so far
    exportRequests      \* FlowchartEditor: exportDiagram requests not yet answered

appVars == <<editorXml, flowchartXml, analysisHasErrors, selectedLanguage, isGeneratingCode,
             analyzeCall, generateCall, lastAnalysis, lastRequest>>

classifyVars == <<classifyInput, nodeType, valueInput, contentDetected>>

editorVars == <<now, drawio, currentXml, capturePromiseResolver, captures, exportRequests>>

vars == <<pako, fixture, data, decoded, rawInput, parsed, docInput, extracted,
          elementsInput, analyzed, svgInput, svgXml, appVars, classifyVars, editorVars>>

\* The state of the App component after its construction (useState, lines 213-224),
\* with no call of a handler under way, no analysis completed and no request sent.
Idle == [pc |-> "idle"]

NoAnalysis == [done |-> FALSE]

NoRequest == [sent |-> FALSE]

\* No classification called.
NoType == [st |-> "pending", v |-> ""]

ClassifyNotCalled ==
    /\ classifyInput = [shapeType |-> "", contentType |-> "", hasIncoming |-> FALSE,
                        hasOutgoing |-> FALSE]
    /\ nodeType = NoType
    /\ valueInput = ""
    /\ contentDetected = NoType

\* The FlowchartEditor component before it is mounted: no editor behind the ref, the
\* slot empty (useRef(null)), no capture called.
EditorNotMounted ==
    /\ now = 0
    /\ drawio = [ref |-> FALSE, getXml |-> FALSE, exportDiagram |-> FALSE]
    /\ currentXml = ""
    /\ capturePromiseResolver = [some |-> FALSE]
    /\ captures = <<>>
    /\ exportRequests = 0

AppConstructed ==
    /\ flowchartXml = ""
    /\ analysisHasErrors = TRUE
    /\ selectedLanguage = ""
    /\ isGeneratingCode = FALSE
    /\ analyzeCall = Idle
    /\ generateCall = Idle
    /\ lastAnalysis = NoAnalysis
    /\ lastRequest = NoRequest

(***************************************************************************)
(* Characters and strings                                                  *)
(***************************************************************************)
Min(S) == CHOOSE x \in S : \A y \in S : x <= y

\* The value of In on v: a name for a value that is used more than once.
Bind(v, In(_)) == In(v)

Ch(s, i) == SubSeq(s, i, i)

From(s, i) == SubSeq(s, i, Len(s))

\* String.prototype.indexOf(sub, from), 1-based; 0 when sub does not occur.
IndexOf(s, sub, from) ==
    LET P == {i \in from..(Len(s) - Len(sub) + 1) : SubSeq(s, i, i + Len(sub) - 1) = sub}
    IN IF P = {} THEN 0 ELSE Min(P)

includes(s, sub) == IndexOf(s, sub, 1) # 0

startsWith(s, prefix) == Len(s) >= Len(prefix) /\ SubSeq(s, 1, Len(prefix)) = prefix

WhiteSpace == {" ", "\t", "\n", "\r"}

\* String.prototype.trim
trim(s) ==
    LET K == {i \in 1..Len(s) : Ch(s, i) \notin WhiteSpace}
    IN IF K = {} THEN "" ELSE SubSeq(s, Min(K), CHOOSE j \in K : \A k \in K : k <= j)

\* The printable ASCII characters: AsciiLow holds codes 32 (space) to 95 (_),
\* AsciiHigh codes 97 (a) to 126 (~).  Code 96 cannot be written in a TLA+
\* string and is left out of the texts of the model.
AsciiLow == " !\"#$%&'()*+,-./0123456789:;<=>?@ABCDEFGHIJKLMNOPQRSTUVWXYZ[\\]^_"

AsciiHigh == "abcdefghijklmnopqrstuvwxyz{|}~"

\* charCodeAt(0) of a one-character string (ASCII text only).
CharsOf(s) == {Ch(s, i) : i \in 1..Len(s)}

\* The code of every character of the model, as a table.
CharCode ==
    [c \in {"\t", "\n", "\r"} \cup CharsOf(AsciiLow) \cup CharsOf(AsciiHigh) |->
        IF c = "\t" THEN 9 ELSE IF c = "\n" THEN 10 ELSE IF c = "\r" THEN 13
        ELSE IF includes(AsciiLow, c) THEN 31 + IndexOf(AsciiLow, c, 1)
        ELSE 96 + IndexOf(AsciiHigh, c, 1)]

charCodeAt(c) == CharCode[c]

IsTextByte(b) == b \in {9, 10, 13} \/ (b >= 32 /\ b <= 126 /\ b # 96)

\* String.fromCharCode for an ASCII text byte.
fromCharCode(b) ==
    IF b = 9 THEN "\t" ELSE IF b = 10 THEN "\n" ELSE IF b = 13 THEN "\r"
    ELSE IF b <= 95 THEN Ch(AsciiLow, b - 31) ELSE Ch(AsciiHigh, b - 96)

\* The concatenation of the pieces f[lo], ..., f[hi] (strings or sequences),
\* by halving, so that the depth of the recursion stays logarithmic.
RECURSIVE Flatten(_, _, _, _)
Flatten(f, lo, hi, empty) ==
    IF lo > hi THEN empty
    ELSE IF lo = hi THEN f[lo]
    ELSE LET mid == (lo + hi) \div 2
         IN Flatten(f, lo, mid, empty) \o Flatten(f, mid + 1, hi, empty)

\* String.prototype.replace(/pat/g, rep): leftmost non-overlapping matches,
\* the replacement text is not scanned again.
RECURSIVE ReplaceLeftmost(_, _, _)
ReplaceLeftmost(s, pat, rep) ==
    LET i == IndexOf(s, pat, 1)
    IN IF i = 0 THEN s
       ELSE SubSeq(s, 1, i - 1) \o rep \o ReplaceLeftmost(From(s, i + Len(pat)), pat, rep)

\* Where no two occurrences of pat overlap every occurrence is a match, and
\* the result is put together character by character.
replaceAll(s, pat, rep) ==
    LET n == Len(s)
        m == Len(pat)
        M == {i \in 1..(n - m + 1) : SubSeq(s, i, i + m - 1) = pat}
        piece(i) == IF i \in M THEN rep
                    ELSE IF \E k \in 1..(m - 1) : (i - k) \in M THEN ""
                    ELSE Ch(s, i)
    IN IF \E i \in M : \E k \in 1..(m - 1) : (i + k) \in M
       THEN ReplaceLeftmost(s, pat, rep)
       ELSE Flatten([i \in 1..n |-> piece(i)], 1, n, "")

StringToBytes(s) == [i \in 1..Len(s) |-> charCodeAt(Ch(s, i))]

BytesToString(bs) == Flatten([i \in 1..Len(bs) |-> fromCharCode(bs[i])], 1, Len(bs), "")

(***************************************************************************)
(* Library conversions used by the decoder: atob, pako.inflateRaw,         *)
(* decodeURIComponent, and their inverses (used to build the inputs).      *)
(* A conversion yields [st, v]: st = "ok" with the value v, st = "throws"  *)
(* when the library raises an error, st = "outside" when the real result   *)
(* is not a text of the model (see InDomain).                              *)
(***************************************************************************)
Ok(v) == [st |-> "ok", v |-> v]

Throws == [st |-> "throws", v |-> ""]

Outside == [st |-> "outside", v |-> ""]

B64Alphabet == "ABCDEFGHIJKLMNOPQRSTUVWXYZabcdefghijklmnopqrstuvwxyz0123456789+/"

B64Index == [c \in CharsOf(B64Alphabet) |-> IndexOf(B64Alphabet, c, 1) - 1]

B64Val(c) == B64Index[c]

RemoveWhiteSpace(s) ==
    Flatten([i \in 1..Len(s) |-> IF Ch(s, i) \in WhiteSpace THEN "" ELSE Ch(s, i)],
            1, Len(s), "")

\* The bytes of a base64 text without padding whose length is not 1 mod 4:
\* every group of 4 characters gives 3 bytes; the bits left over in a last
\* group of 2 or 3 characters are dropped.
B64Group(g) ==
    LET v(i) == B64Val(Ch(g, i))
    IN IF Len(g) = 4 THEN
           LET n == v(1) * 262144 + v(2) * 4096 + v(3) * 64 + v(4)
           IN <<n \div 65536, (n \div 256) % 256, n % 256>>
       ELSE IF Len(g) = 3 THEN
           LET n == (v(1) * 4096 + v(2) * 64 + v(3)) \div 4
           IN <<n \div 256, n % 256>>
       ELSE IF Len(g) = 2 THEN <<(v(1) * 64 + v(2)) \div 16>>
       ELSE <<>>

B64Bytes(s) ==
    LET k == (Len(s) + 3) \div 4
        g(i) == SubSeq(s, 4 * i - 3, IF 4 * i <= Len(s) THEN 4 * i ELSE Len(s))
    IN Flatten([i \in 1..k |-> B64Group(g(i))], 1, k, <<>>)

\* window.atob (forgiving-base64 decode): ASCII whitespace is removed, one or
\* two trailing "=" are removed when the length is a multiple of 4, and the
\* call throws on a length of 1 mod 4 or a character outside the alphabet.
StripPadding(t) ==
    IF Len(t) > 0 /\ Len(t) % 4 = 0 /\ Ch(t, Len(t)) = "="
    THEN (IF Ch(t, Len(t) - 1) = "=" THEN SubSeq(t, 1, Len(t) - 2)
          ELSE SubSeq(t, 1, Len(t) - 1))
    ELSE t

atob(s) ==
    Bind(StripPadding(RemoveWhiteSpace(s)), LAMBDA u :
      IF Len(u) % 4 = 1 \/ \E i \in 1..Len(u) : Ch(u, i) \notin DOMAIN B64Index
      THEN Throws
      ELSE Ok(B64Bytes(u)))

\* window.btoa on a sequence of bytes.
B64Encode3(bs) ==
    LET c(k) == Ch(B64Alphabet, k + 1)
    IN IF Len(bs) = 3 THEN
           LET n == bs[1] * 65536 + bs[2] * 256 + bs[3]
           IN c(n \div 262144) \o c((n \div 4096) % 64) \o c((n \div 64) % 64) \o c(n % 64)
       ELSE IF Len(bs) = 2 THEN
           LET n == (bs[1] * 256 + bs[2]) * 4
           IN c(n \div 4096) \o c((n \div 64) % 64) \o c(n % 64) \o "="
       ELSE IF Len(bs) = 1 THEN
           LET n == bs[1] * 16
           IN c(n \div 64) \o c(n % 64) \o "=="
       ELSE ""

btoa(bs) ==
    LET k == (Len(bs) + 2) \div 3
        g(i) == SubSeq(bs, 3 * i - 2, IF 3 * i <= Len(bs) THEN 3 * i ELSE Len(bs))
    IN Flatten([i \in 1..k |-> B64Encode3(g(i))], 1, k, "")

\* Raw DEFLATE restricted to stored blocks (BTYPE = 00): header byte, LEN and
\* its one's complement NLEN (little endian), then LEN literal bytes.
\* st = "end": the final block was read; "error": invalid data (reserved
\* block type 11, LEN/NLEN mismatch); "truncated": the input ended before the
\* stream did, out holds the bytes produced so far; "huffman": a compressed
\* block (BTYPE 01 or 10), which the model does not decode.
RECURSIVE InflateBlocks(_)
InflateBlocks(b) ==
    IF Len(b) = 0 THEN [st |-> "truncated", out |-> <<>>]
    ELSE LET bfinal == b[1] % 2
             btype == (b[1] \div 2) % 4
         IN IF btype = 3 THEN [st |-> "error", out |-> <<>>]
            ELSE IF btype # 0 THEN [st |-> "huffman", out |-> <<>>]
            ELSE IF Len(b) < 5 THEN [st |-> "truncated", out |-> <<>>]
            ELSE LET len == b[2] + 256 * b[3]
                     nlen == b[4] + 256 * b[5]
                 IN IF len + nlen # 65535 THEN [st |-> "error", out |-> <<>>]
                    ELSE IF Len(b) < 5 + len
                         THEN [st |-> "truncated", out |-> SubSeq(b, 6, Len(b))]
                    ELSE IF bfinal = 1
                         THEN [st |-> "end", out |-> SubSeq(b, 6, 5 + len)]
                    ELSE LET r == InflateBlocks(SubSeq(b, 6 + len, Len(b)))
                         IN [st |-> r.st, out |-> SubSeq(b, 6, 5 + len) \o r.out]

\* pako.inflateRaw(bytes, { to: 'string' }).  On a truncated stream the
\* outcome depends on the pako build: an error, the undefined result (which
\* decodeURIComponent turns into the text "undefined"), or the text inflated
\* so far.
TextOf(out) ==
    IF \A i \in 1..Len(out) : IsTextByte(out[i]) THEN Ok(BytesToString(out)) ELSE Outside

inflateRaw(bs) ==
    Bind(InflateBlocks(bs), LAMBDA r :
      CASE r.st = "error" -> Throws
        [] r.st = "huffman" -> Outside
        [] r.st = "truncated" /\ pako = "throws" -> Throws
        [] r.st = "truncated" /\ pako = "undefined" -> Ok("undefined")
        [] OTHER -> TextOf(r.out))

\* A raw DEFLATE stream of one stored block holding the bytes bs.
deflateRaw(bs) ==
    LET n == Len(bs)
    IN <<1, n % 256, n \div 256, 255 - (n % 256), 255 - (n \div 256)>> \o bs

\* The sum of f[lo], ..., f[hi], by halving.
RECURSIVE Sum(_, _, _)
Sum(f, lo, hi) ==
    IF lo > hi THEN 0
    ELSE IF lo = hi THEN f[lo]
    ELSE Sum(f, lo, (lo + hi) \div 2) + Sum(f, (lo + hi) \div 2 + 1, hi)

\* The Adler-32 checksum of the bytes bs, as the four bytes that end a zlib
\* stream (big endian).
AdlerBase == 65521

Adler32(bs) ==
    Bind((1 + Sum(bs, 1, Len(bs))) % AdlerBase, LAMBDA a :
      Bind((Len(bs) + Sum([i \in 1..Len(bs) |-> (Len(bs) - i + 1) * bs[i]], 1, Len(bs)))
             % AdlerBase,
           LAMBDA b : <<b \div 256, b % 256, a \div 256, a % 256>>))

\* The number of bytes of the stored blocks of a stream that InflateBlocks
\* reads to its end.
RECURSIVE StreamLength(_)
StreamLength(b) ==
    Bind(5 + b[2] + 256 * b[3], LAMBDA n :
      IF b[1] % 2 = 1 THEN n ELSE n + StreamLength(SubSeq(b, n + 1, Len(b))))

\* The zlib header: compression method 8 and a window of at most 32K in the
\* first byte, the two bytes a multiple of 31 as a big-endian number.
ZlibHeaderOk(bs) ==
    /\ (256 * bs[1] + bs[2]) % 31 = 0
    /\ bs[1] % 16 = 8
    /\ bs[1] \div 16 <= 7

\* The stream after a zlib header: the blocks, then the checksum of the
\* bytes inflated.
InflateZlibBody(body) ==
    Bind(InflateBlocks(body), LAMBDA r :
      CASE r.st = "error" -> [st |-> "error", out |-> <<>>]
        [] r.st = "huffman" -> [st |-> "outside", out |-> <<>>]
        [] r.st = "truncated" -> r
        [] OTHER ->
             Bind(SubSeq(body, StreamLength(body) + 1, Min({Len(body), StreamLength(body) + 4})),
                  LAMBDA check :
                    IF Len(check) < 4 THEN [st |-> "truncated", out |-> r.out]
                    ELSE IF check # Adler32(r.out) THEN [st |-> "error", out |-> <<>>]
                    ELSE r))

\* pako.inflate(bytes, { to: 'string' }): the stream has a zlib header (a
\* gzip header, which pako detects too, or a preset dictionary is outside
\* the model). An error throws; a truncated stream is as for inflateRaw.
inflate(bs) ==
    Bind(IF Len(bs) < 2 THEN [st |-> "truncated", out |-> <<>>]
         ELSE IF bs[1] = 31 /\ bs[2] = 139 THEN [st |-> "outside", out |-> <<>>]
         ELSE IF ~ZlibHeaderOk(bs) THEN [st |-> "error", out |-> <<>>]
         ELSE IF (bs[2] \div 32) % 2 = 1 THEN [st |-> "outside", out |-> <<>>]
         ELSE InflateZlibBody(SubSeq(bs, 3, Len(bs))),
         LAMBDA r :
           CASE r.st = "error" -> Throws
             [] r.st = "outside" -> Outside
             [] r.st = "truncated" /\ pako = "throws" -> Throws
             [] r.st = "truncated" /\ pako = "undefined" -> Ok("undefined")
             [] OTHER -> TextOf(r.out))

\* A zlib stream of one stored block holding the bytes bs.
deflate(bs) == <<120, 156>> \o deflateRaw(bs) \o Adler32(bs)

HexDigits == "0123456789ABCDEF"

HexIndex ==
    [c \in CharsOf(HexDigits) \cup CharsOf("abcdef") |->
        IF includes(HexDigits, c) THEN IndexOf(HexDigits, c, 1) - 1
        ELSE 9 + IndexOf("abcdef", c, 1)]

IsHex(c) == c \in DOMAIN HexIndex

HexVal(c) == HexIndex[c]

\* decodeURIComponent on ASCII escapes: every "%" needs two hex digits
\* (URIError otherwise); a byte 80..BF or F8..FF cannot start a UTF-8 sequence
\* (URIError); a control character or a multi-byte sequence is outside the
\* texts of the model.
decodeURIComponent(s) ==
    LET n == Len(s)
        E == {i \in 1..n : Ch(s, i) = "%"}
        malformed(i) == i + 2 > n \/ ~IsHex(Ch(s, i + 1)) \/ ~IsHex(Ch(s, i + 2))
        byte(i) == 16 * HexVal(Ch(s, i + 1)) + HexVal(Ch(s, i + 2))
        piece(i) == IF i \in E THEN fromCharCode(byte(i))
                    ELSE IF (i - 1) \in E \/ (i - 2) \in E THEN ""
                    ELSE Ch(s, i)
    IN IF \E i \in E : malformed(i) THEN Throws
       ELSE IF \E i \in E : (byte(i) >= 128 /\ byte(i) <= 191) \/ byte(i) >= 248 THEN Throws
       ELSE IF \E i \in E : ~IsTextByte(byte(i)) THEN Outside
       ELSE Ok(Flatten([i \in 1..n |-> piece(i)], 1, n, ""))

URIUnreserved ==
    "ABCDEFGHIJKLMNOPQRSTUVWXYZabcdefghijklmnopqrstuvwxyz0123456789-_.!~*'()"

UnreservedChars == CharsOf(URIUnreserved)

\* encodeURIComponent on an ASCII text.
encodeURIComponent(s) ==
    LET esc(c) == IF c \in UnreservedChars THEN c
                  ELSE "%" \o Ch(HexDigits, (charCodeAt(c) \div 16) + 1)
                           \o Ch(HexDigits, (charCodeAt(c) % 16) + 1)
    IN Flatten([i \in 1..Len(s) |-> esc(Ch(s, i))], 1, Len(s), "")

(***************************************************************************)
(* decodeHtml and decodeDiagramContent                                     *)
(***************************************************************************)
\* The outcome of a function or of a try block: it returns v, it throws, or
\* (a try block only) it ends without returning ("fall").
Return(v) == [st |-> "return", v |-> v]

Throw == [st |-> "throw", v |-> ""]

Fall == [st |-> "fall", v |-> ""]

Pending == [st |-> "pending", v |-> ""]

\* decodeHtml without the replacement of &gt;.
decodeHtmlKeepsGt(raw) ==
    replaceAll(
      replaceAll(
        replaceAll(
          replaceAll(
            replaceAll(raw, "&lt;", "<"),
            "&quot;", "\""),
          "&#39;", "'"),
        "&nbsp;", " "),
      "&amp;", "&")

decodeHtml(raw) ==
    replaceAll(
      replaceAll(
        replaceAll(
          replaceAll(
            replaceAll(
              replaceAll(raw, "&lt;", "<"),
              "&gt;", ">"),
            "&quot;", "\""),
          "&#39;", "'"),
        "&nbsp;", " "),
      "&amp;", "&")

\* The first try block returning the inflated text without the URI decoding.
InflateBase64NoUri(d) ==
    Bind(atob(d), LAMBDA bytes :
      IF bytes.st # "ok" THEN Throw
      ELSE Bind(inflateRaw(bytes.v), LAMBDA inflated :
             IF inflated.st # "ok" THEN Throw
             ELSE IF startsWith(trim(inflated.v), "<") THEN Return(inflated.v)
             ELSE Fall))

\* The body of the first try block: base64 -> inflateRaw -> URI decode.
InflateBase64(d) ==
    Bind(atob(d), LAMBDA bytes :
      IF bytes.st # "ok" THEN Throw
      ELSE Bind(inflateRaw(bytes.v), LAMBDA inflated :
             IF inflated.st # "ok" THEN Throw
             ELSE Bind(decodeURIComponent(inflated.v), LAMBDA xml :
                    IF xml.st # "ok" THEN Throw
                    ELSE IF startsWith(trim(xml.v), "<") THEN Return(xml.v)
                    ELSE Fall)))

\* The body of the second try block: the base64 block is first URI-decoded.
InflateUriBase64(d) ==
    Bind(decodeURIComponent(d), LAMBDA uriDecoded :
      IF uriDecoded.st # "ok" THEN Throw ELSE InflateBase64(uriDecoded.v))

\* A try block without its catch: the error propagates.
Uncaught(r) == r

\* catch { /* ignore */ }: an error of the try block is dropped.
Caught(r) == IF r.st = "throw" THEN Fall ELSE r

decodeDiagramContent(d) ==
    IF d = "" THEN Return("")
    ELSE IF startsWith(trim(d), "<") THEN Return(d)
    ELSE Bind(Caught(InflateBase64(d)), LAMBDA r1 :
           IF r1.st # "fall" THEN r1
           ELSE Bind(Caught(InflateUriBase64(d)), LAMBDA r2 :
                  IF r2.st # "fall" THEN r2
                  ELSE Bind(decodeHtml(d), LAMBDA htmlDecoded :
                         IF startsWith(trim(htmlDecoded), "<")
                         THEN Return(htmlDecoded)
                         ELSE Return(""))))

\* No conversion applied to the text d leaves the texts of the model,
\* whatever the pako build: no compressed block, no byte or escape that is
\* not ASCII text.
InflateInDomain(t) ==
    LET bytes == atob(t)
        r == InflateBlocks(bytes.v)
    IN bytes.st = "ok" =>
          /\ r.st # "huffman"
          /\ \A i \in 1..Len(r.out) : IsTextByte(r.out[i])
          /\ decodeURIComponent(BytesToString(r.out)).st # "outside"

InDomain(d) ==
    LET uriDecoded == decodeURIComponent(d)
    IN /\ InflateInDomain(d)
       /\ uriDecoded.st # "outside"
       /\ uriDecoded.st = "ok" => InflateInDomain(uriDecoded.v)

(***************************************************************************)
(* DOMParser.parseFromString(text, 'text/xml') on the XML subset of the    *)
(* model: one root element, elements with quoted attributes, character     *)
(* data, the predefined entities and decimal character references.  A      *)
(* parse error gives the document whose root is a parsererror element.     *)
(***************************************************************************)
None == [some |-> FALSE]

Some(v) == [some |-> TRUE, v |-> v]

Element(tag, attrs, kids) == [kind |-> "element", tag |-> tag, attrs |-> attrs, kids |-> kids]

TextNode(t) == [kind |-> "text", text |-> t]

\* documentElement is None for a document without a root element.
Document(root) == [null |-> FALSE, documentElement |-> Some(root)]

ParserErrorDocument == Document(Element("parsererror", <<>>, <<>>))

\* The null document and a document that has no root element.
Null == [null |-> TRUE]

EmptyDocument == [null |-> FALSE, documentElement |-> None]

\* The character at position i, "" outside the string.
At(s, i) == IF i >= 1 /\ i <= Len(s) THEN Ch(s, i) ELSE ""

\* The first position from i on that holds a character of C; Len(s) + 1 when none.
Scan(s, i, C) ==
    LET P == {j \in i..Len(s) : Ch(s, j) \in C}
    IN IF P = {} THEN Len(s) + 1 ELSE Min(P)

\* The first position from i on that holds no white space; Len(s) + 1 when none.
SkipSpace(s, i) ==
    LET P == {j \in i..Len(s) : Ch(s, j) \notin WhiteSpace}
    IN IF P = {} THEN Len(s) + 1 ELSE Min(P)

NameStop == WhiteSpace \cup {"<", ">", "/", "=", "\"", "'", "&"}

NameStart == "ABCDEFGHIJKLMNOPQRSTUVWXYZabcdefghijklmnopqrstuvwxyz_:"

ValidName(n) == n # "" /\ includes(NameStart, Ch(n, 1))

PredefinedEntity ==
    [e \in {"lt", "gt", "amp", "quot", "apos"} |->
        CASE e = "lt" -> "<" [] e = "gt" -> ">" [] e = "amp" -> "&"
          [] e = "quot" -> "\"" [] e = "apos" -> "'"]

Digits == "0123456789"

\* The value of a decimal character reference "#d", "#dd" or "#ddd"; 0 otherwise.
CharRefValue(n) ==
    LET d == [i \in 2..Len(n) |-> IndexOf(Digits, Ch(n, i), 1) - 1]
    IN IF Len(n) < 2 \/ Len(n) > 4 \/ Ch(n, 1) # "#" \/ \E i \in 2..Len(n) : d[i] < 0
       THEN 0
       ELSE IF Len(n) = 2 THEN d[2]
       ELSE IF Len(n) = 3 THEN 10 * d[2] + d[3]
       ELSE 100 * d[2] + 10 * d[3] + d[4]

\* The character a reference names, "" when the parser does not know it;
\* name is the text between "&" and ";".
ReferenceChar(name) ==
    IF name \in DOMAIN PredefinedEntity THEN PredefinedEntity[name]
    ELSE Bind(CharRefValue(name), LAMBDA code :
           IF IsTextByte(code) THEN fromCharCode(code) ELSE "")

\* Character data or an attribute value with its references replaced;
\* not ok on a "&" that starts no reference the parser knows.
DecodeReferences(t) ==
    LET E == {i \in 1..Len(t) : Ch(t, i) = "&"}
        \* the end of the reference that starts at i: the longest reference
        \* the parser of the model knows has 6 characters
        semi == [i \in E |-> LET P == {k \in (i + 1)..(i + 5) : At(t, k) = ";"}
                             IN IF P = {} THEN 0 ELSE Min(P)]
        char == [i \in E |-> IF semi[i] = 0 THEN ""
                             ELSE ReferenceChar(SubSeq(t, i + 1, semi[i] - 1))]
        piece == [i \in 1..Len(t) |->
                    IF i \in E THEN char[i]
                    ELSE IF \E k \in 1..5 : (i - k) \in E /\ i <= semi[i - k] THEN ""
                    ELSE Ch(t, i)]
    IN IF \E i \in E : char[i] = "" THEN [ok |-> FALSE, v |-> ""]
       ELSE [ok |-> TRUE, v |-> Flatten(piece, 1, Len(t), "")]

ParseFail == [ok |-> FALSE, pos |-> 0, val |-> <<>>]

ParseOk(pos, val) == [ok |-> TRUE, pos |-> pos, val |-> val]

\* The attribute name = "value" whose name spans j..k-1 and whose opening
\* quote is at k + 1, the closing one at e: the attributes so far with
\* this one added, ParseFail when it is malformed.
Attribute(s, j, k, e, acc) ==
    Bind(SubSeq(s, j, k - 1), LAMBDA name :
      Bind(DecodeReferences(SubSeq(s, k + 2, e - 1)), LAMBDA value :
        IF ~ValidName(name) \/ e = 0 \/ includes(SubSeq(s, k + 2, e - 1), "<") \/ ~value.ok
           \/ \E a \in 1..Len(acc) : acc[a].name = name
        THEN ParseFail
        ELSE ParseOk(e + 1, Append(acc, [name |-> name, value |-> value.v]))))

\* The attributes of a start tag from position i on, up to ">" or "/>".
RECURSIVE ParseAttributes(_, _, _)
ParseAttributes(s, i, acc) ==
    Bind(SkipSpace(s, i), LAMBDA j :
      IF At(s, j) = ">" THEN ParseOk(j + 1, [attrs |-> acc, empty |-> FALSE])
      ELSE IF At(s, j) = "/"
      THEN (IF At(s, j + 1) = ">"
            THEN ParseOk(j + 2, [attrs |-> acc, empty |-> TRUE])
            ELSE ParseFail)
      ELSE Bind(Scan(s, j, NameStop), LAMBDA k :
             IF j = i \/ k = j \/ At(s, k) # "=" \/ At(s, k + 1) \notin {"\"", "'"}
             THEN ParseFail
             ELSE Bind(Attribute(s, j, k, IndexOf(s, At(s, k + 1), k + 2), acc), LAMBDA a :
                    IF a.ok THEN ParseAttributes(s, a.pos, a.val) ELSE ParseFail)))

\* The end tag of the element tag at position i: the position after it.
EndTag(s, i, tag) ==
    Bind(Scan(s, i + 2, NameStop), LAMBDA k :
      Bind(SkipSpace(s, k), LAMBDA g :
        IF SubSeq(s, i + 2, k - 1) # tag \/ At(s, g) # ">" THEN 0 ELSE g + 1))

RECURSIVE ParseElement(_, _), ParseContent(_, _, _)
\* The element that starts at position i.
ParseElement(s, i) ==
    Bind(Scan(s, i + 1, NameStop), LAMBDA k :
      Bind(SubSeq(s, i + 1, k - 1), LAMBDA tag :
        IF At(s, i) # "<" \/ ~ValidName(tag) THEN ParseFail
        ELSE Bind(ParseAttributes(s, k, <<>>), LAMBDA a :
               IF ~a.ok THEN ParseFail
               ELSE IF a.val.empty THEN ParseOk(a.pos, Element(tag, a.val.attrs, <<>>))
               ELSE Bind(ParseContent(s, a.pos, <<>>), LAMBDA c :
                      IF ~c.ok \/ EndTag(s, c.pos, tag) = 0 THEN ParseFail
                      ELSE ParseOk(EndTag(s, c.pos, tag),
                                   Element(tag, a.val.attrs, c.val))))))

\* The children of an element from position i on, up to its end tag "</".
ParseContent(s, i, acc) ==
    IF i > Len(s) THEN ParseFail
    ELSE IF Ch(s, i) = "<"
    THEN (IF At(s, i + 1) = "/" THEN ParseOk(i, acc)
          ELSE Bind(ParseElement(s, i), LAMBDA r :
                 IF ~r.ok THEN ParseFail
                 ELSE ParseContent(s, r.pos, Append(acc, r.val))))
    ELSE Bind(Scan(s, i, {"<"}), LAMBDA k :
           Bind(DecodeReferences(SubSeq(s, i, k - 1)), LAMBDA text :
             IF ~text.ok THEN ParseFail
             ELSE ParseContent(s, k, Append(acc, TextNode(text.v)))))

parseFromString(text) ==
    Bind(ParseElement(text, SkipSpace(text, 1)), LAMBDA r :
      IF r.ok /\ SkipSpace(text, r.pos) > Len(text)
      THEN Document(r.val)
      ELSE ParserErrorDocument)

(***************************************************************************)
(* DOM queries                                                             *)
(***************************************************************************)
\* The elements below el, in document order.
RECURSIVE Descendants(_)
Descendants(el) ==
    Flatten([i \in 1..Len(el.kids) |->
                IF el.kids[i].kind = "element"
                THEN <<el.kids[i]>> \o Descendants(el.kids[i])
                ELSE <<>>],
            1, Len(el.kids), <<>>)

\* The text nodes below el, in document order.
RECURSIVE TextNodes(_)
TextNodes(el) ==
    Flatten([i \in 1..Len(el.kids) |->
                IF el.kids[i].kind = "element"
                THEN TextNodes(el.kids[i])
                ELSE <<el.kids[i].text>>],
            1, Len(el.kids), <<>>)

WithTag(els, tag) == SelectSeq(els, LAMBDA e : e.tag = tag)

\* Element.getElementsByTagName and Document.getElementsByTagName.
getElementsByTagName(el, tag) == WithTag(Descendants(el), tag)

docElementsByTagName(doc, tag) ==
    WithTag(<<doc.documentElement.v>> \o Descendants(doc.documentElement.v), tag)

textContent(el) ==
    LET t == TextNodes(el) IN Flatten(t, 1, Len(t), "")

\* getAttribute: None stands for null.
getAttribute(el, name) ==
    LET A == {i \in 1..Len(el.attrs) : el.attrs[i].name = name}
    IN IF A = {} THEN None ELSE Some(el.attrs[Min(A)].value)

\* (x || undefined) on a string or null: None stands for undefined.
OrUndefined(x) == IF x.some /\ x.v # "" THEN x ELSE None

\* (x || '') on an optional string.
OrEmpty(x) == IF x.some THEN x.v ELSE ""

HasParserError(doc) == docElementsByTagName(doc, "parsererror") # <<>>

\* parseDrawioXml without the check for a parsererror element.
parseDrawioXmlKeepsErrors(raw) ==
    IF raw = "" \/ trim(raw) = "" THEN Return(Null)
    ELSE Return(parseFromString(raw))

\* The loop over the attempts from the k-th on.
RECURSIVE FirstParsed(_, _)
FirstParsed(attempts, k) ==
    IF k > Len(attempts) THEN Null
    ELSE Bind(parseFromString(attempts[k]), LAMBDA doc :
           IF ~HasParserError(doc) THEN doc ELSE FirstParsed(attempts, k + 1))

\* parseDrawioXml: the first of the attempts that parses without a
\* parsererror element; null when there is none.
parseDrawioXml(raw) ==
    IF raw = "" \/ trim(raw) = "" THEN Return(Null)
    ELSE Bind(decodeDiagramContent(raw), LAMBDA decodedViaHelper :
           IF decodedViaHelper.st = "throw" THEN [st |-> "throw", v |-> Null]
           ELSE Return(FirstParsed(<<raw, decodeHtml(raw)>>
                                   \o (IF decodedViaHelper.v # "" THEN <<decodedViaHelper.v>>
                                       ELSE <<>>),
                                   1)))

(***************************************************************************)
(* Node classification                                                     *)
(***************************************************************************)
UpperCase == "ABCDEFGHIJKLMNOPQRSTUVWXYZ"

LowerCase == "abcdefghijklmnopqrstuvwxyz"

Lower == [c \in CharsOf(UpperCase) |-> Ch(LowerCase, IndexOf(UpperCase, c, 1))]

toLowerCase(s) ==
    Flatten([i \in 1..Len(s) |-> IF Ch(s, i) \in DOMAIN Lower THEN Lower[Ch(s, i)] ELSE Ch(s, i)],
            1, Len(s), "")

includesAny(s, keywords) == \E k \in keywords : includes(s, k)

detectShapeType(style) ==
    Bind(toLowerCase(style), LAMBDA lowerStyle :
      IF includesAny(lowerStyle, {"ellipse", "oval"}) THEN "oval"
      ELSE IF includesAny(lowerStyle, {"rhombus", "diamond"}) THEN "diamond"
      ELSE IF includes(lowerStyle, "parallelogram") THEN "parallelogram"
      ELSE "rectangle")

HexRun(s, i, n) == \A k \in 0..(n - 1) : IsHex(At(s, i + k))

\* style.match(/fillColor=([#]?[0-9a-fA-F]{n})/): the captured group of the
\* leftmost match, None when there is no match.
FillColorKey == "fillColor="

\* The group ([#]?[0-9a-fA-F]{n}) matches at position q.
FillColorAt(style, q, n) ==
    IF At(style, q) = "#" THEN HexRun(style, q + 1, n) ELSE HexRun(style, q, n)

FillColorMatch(style, n) ==
    Bind({p \in 1..(Len(style) - Len(FillColorKey) + 1) :
             /\ SubSeq(style, p, p + Len(FillColorKey) - 1) = FillColorKey
             /\ FillColorAt(style, p + Len(FillColorKey), n)},
         LAMBDA P :
           IF P = {} THEN None
           ELSE Bind(Min(P) + Len(FillColorKey), LAMBDA q :
                  Some(SubSeq(style, q, IF At(style, q) = "#" THEN q + n ELSE q + n - 1))))

DefaultFillColor == "#f0f0f0"

NamedColors ==
    << <<"red", "#ff0000">>, <<"blue", "#0000ff">>, <<"green", "#00ff00">>,
       <<"yellow", "#ffff00">>, <<"orange", "#ffa500">>, <<"purple", "#800080">>,
       <<"pink", "#ffc0cb">>, <<"cyan", "#00ffff">>, <<"white", "#ffffff">>,
       <<"black", "#000000">> >>

\* color with its leading "#" removed, if it has one.
WithoutHash(color) == IF startsWith(color, "#") THEN From(color, 2) ELSE color

\* The first named color the style holds, the default when it holds none.
NamedFillColor(style) ==
    Bind({k \in 1..Len(NamedColors) : includes(style, FillColorKey \o NamedColors[k][1])},
         LAMBDA N : IF N # {} THEN NamedColors[Min(N)][2] ELSE DefaultFillColor)

extractFillColor(style) ==
    IF style = "" THEN DefaultFillColor
    ELSE Bind(FillColorMatch(style, 6), LAMBDA long :
           IF long.some THEN "#" \o WithoutHash(long.v)
           ELSE Bind(FillColorMatch(style, 3), LAMBDA short :
                  IF short.some
                  THEN Bind(WithoutHash(short.v), LAMBDA hexColor :
                         "#" \o Ch(hexColor, 1) \o Ch(hexColor, 1)
                             \o Ch(hexColor, 2) \o Ch(hexColor, 2)
                             \o Ch(hexColor, 3) \o Ch(hexColor, 3))
                  ELSE NamedFillColor(style)))

\* The end keywords looked for before the start keywords.
analyzeNodeContentEndFirst(value) ==
    IF value = "" THEN "unknown"
    ELSE Bind(trim(toLowerCase(value)), LAMBDA lowerValue :
            IF includesAny(lowerValue, {"end", "stop", "finish", "terminate", "exit",
                                        "close", "complete", "done"}) THEN "end"
            ELSE IF includesAny(lowerValue, {"start", "begin", "initialize", "init", "launch",
                                             "commence", "open"}) THEN "start"
            ELSE IF includesAny(lowerValue, {"input", "read", "enter", "get", "scan",
                                             "prompt", "ask"}) THEN "input"
            ELSE IF includesAny(lowerValue, {"output", "print", "display", "show", "write",
                                             "say", "tell"}) THEN "output"
            ELSE IF includesAny(lowerValue, {"if", "while", "for", "check", "test", "compare",
                                             "?", "==", "!=", "<", ">", "<=", ">="}) THEN "decision"
            ELSE "process")

analyzeNodeContent(value) ==
    IF value = "" THEN "unknown"
    ELSE Bind(trim(toLowerCase(value)), LAMBDA lowerValue :
            IF includesAny(lowerValue, {"start", "begin", "initialize", "init", "launch",
                                        "commence", "open"}) THEN "start"
            ELSE IF includesAny(lowerValue, {"end", "stop", "finish", "terminate", "exit",
                                             "close", "complete", "done"}) THEN "end"
            ELSE IF includesAny(lowerValue, {"input", "read", "enter", "get", "scan",
                                             "prompt", "ask"}) THEN "input"
            ELSE IF includesAny(lowerValue, {"output", "print", "display", "show", "write",
                                             "say", "tell"}) THEN "output"
            ELSE IF includesAny(lowerValue, {"if", "while", "for", "check", "test", "compare",
                                             "?", "==", "!=", "<", ">", "<=", ">="}) THEN "decision"
            ELSE "process")

\* An oval that takes the content type before its edges.
determineNodeTypeContentFirst(shapeType, contentType, hasIncoming, hasOutgoing) ==
    IF shapeType = "oval"
    THEN IF contentType \in {"start", "end"} THEN contentType
         ELSE IF ~hasIncoming /\ hasOutgoing THEN "start"
         ELSE IF hasIncoming /\ ~hasOutgoing THEN "end"
         ELSE IF hasIncoming THEN "end" ELSE "start"
    ELSE IF shapeType = "diamond" THEN "decision"
    ELSE IF shapeType = "parallelogram"
    THEN IF contentType \in {"input", "output"} THEN contentType ELSE "input"
    ELSE IF shapeType = "rectangle"
    THEN IF contentType = "start" /\ ~hasIncoming THEN "start"
         ELSE IF contentType = "end" /\ ~hasOutgoing THEN "end"
         ELSE IF contentType = "decision" THEN "decision"
         ELSE IF contentType \in {"input", "output"} THEN contentType
         ELSE "process"
    ELSE "process"

\* A rectangle that takes start and end from the content whatever its edges.
determineNodeTypeContentOnly(shapeType, contentType, hasIncoming, hasOutgoing) ==
    IF shapeType = "oval"
    THEN IF ~hasIncoming /\ hasOutgoing THEN "start"
         ELSE IF hasIncoming /\ ~hasOutgoing THEN "end"
         ELSE IF contentType \in {"start", "end"} THEN contentType
         ELSE IF hasIncoming THEN "end" ELSE "start"
    ELSE IF shapeType = "diamond" THEN "decision"
    ELSE IF shapeType = "parallelogram"
    THEN IF contentType \in {"input", "output"} THEN contentType ELSE "input"
    ELSE IF shapeType = "rectangle"
    THEN IF contentType \in {"start", "end", "decision", "input", "output"} THEN contentType
         ELSE "process"
    ELSE "process"

\* A parallelogram without content keyword that is an output when it has an
\* incoming edge.
determineNodeTypeIoByEdges(shapeType, contentType, hasIncoming, hasOutgoing) ==
    IF shapeType = "oval"
    THEN IF ~hasIncoming /\ hasOutgoing THEN "start"
         ELSE IF hasIncoming /\ ~hasOutgoing THEN "end"
         ELSE IF contentType \in {"start", "end"} THEN contentType
         ELSE IF hasIncoming THEN "end" ELSE "start"
    ELSE IF shapeType = "diamond" THEN "decision"
    ELSE IF shapeType = "parallelogram"
    THEN IF contentType \in {"input", "output"} THEN contentType
         ELSE IF hasIncoming THEN "output" ELSE "input"
    ELSE IF shapeType = "rectangle"
    THEN IF contentType = "start" /\ ~hasIncoming THEN "start"
         ELSE IF contentType = "end" /\ ~hasOutgoing THEN "end"
         ELSE IF contentType = "decision" THEN "decision"
         ELSE IF contentType \in {"input", "output"} THEN contentType
         ELSE "process"
    ELSE "process"

determineNodeType(shapeType, contentType, hasIncoming, hasOutgoing) ==
    IF shapeType = "oval"
    THEN IF ~hasIncoming /\ hasOutgoing THEN "start"
         ELSE IF hasIncoming /\ ~hasOutgoing THEN "end"
         ELSE IF contentType \in {"start", "end"} THEN contentType
         ELSE IF hasIncoming THEN "end" ELSE "start"
    ELSE IF shapeType = "diamond" THEN "decision"
    ELSE IF shapeType = "parallelogram"
    THEN IF contentType \in {"input", "output"} THEN contentType ELSE "input"
    ELSE IF shapeType = "rectangle"
    THEN IF contentType = "start" /\ ~hasIncoming THEN "start"
         ELSE IF contentType = "end" /\ ~hasOutgoing THEN "end"
         ELSE IF contentType = "decision" THEN "decision"
         ELSE IF contentType \in {"input", "output"} THEN contentType
         ELSE "process"
    ELSE "process"

(***************************************************************************)
(* Extraction of nodes and edges                                           *)
(***************************************************************************)
RECURSIVE DecimalValue(_)
DecimalValue(ds) ==
    IF ds = "" THEN 0
    ELSE 10 * DecimalValue(SubSeq(ds, 1, Len(ds) - 1))
         + (IndexOf(Digits, Ch(ds, Len(ds)), 1) - 1)

\* A number is its sign, its integer part and the digits of its fraction.
NaN == [nan |-> TRUE, neg |-> FALSE, int |-> 0, frac |-> ""]

Number(neg, int, frac) == [nan |-> FALSE, neg |-> neg, int |-> int, frac |-> frac]

EndOfDigits(s, i) ==
    LET P == {j \in i..Len(s) : ~includes(Digits, Ch(s, j))}
    IN IF P = {} THEN Len(s) + 1 ELSE Min(P)

StripZeros(ds) ==
    LET P == {i \in 1..Len(ds) : Ch(ds, i) # "0"}
    IN IF P = {} THEN "" ELSE SubSeq(ds, 1, CHOOSE i \in P : \A j \in P : j <= i)

\* parseFloat on decimal literals without an exponent: the longest numeric
\* prefix after leading white space, NaN when there is none.
\* The number whose sign is at a (if it has one), whose integer part
\* spans b..c-1 and whose fraction spans c+1..d-1.
NumberAt(s, a, b, c, d) ==
    IF c = b /\ d <= c + 1 THEN NaN
    ELSE Number(At(s, a) = "-", DecimalValue(SubSeq(s, b, c - 1)),
                IF d > c THEN StripZeros(SubSeq(s, c + 1, d - 1)) ELSE "")

parseFloat(s) ==
    Bind(SkipSpace(s, 1), LAMBDA a :
      Bind(IF At(s, a) \in {"+", "-"} THEN a + 1 ELSE a, LAMBDA b :
        Bind(EndOfDigits(s, b), LAMBDA c :
          NumberAt(s, a, b, c, IF At(s, c) = "." THEN EndOfDigits(s, c + 1) ELSE c))))

\* (x || d) on a string or null.
OrDefault(x, d) == IF x.some /\ x.v # "" THEN x.v ELSE d

\* The value attribute of a cell, with MathML markup replaced by the text
\* of its mn elements.
CellValue(cell) ==
    Bind(OrUndefined(getAttribute(cell, "value")), LAMBDA value :
      IF value.some /\ includes(value.v, "<math")
      THEN Bind(docElementsByTagName(parseFromString(value.v), "mn"), LAMBDA mathNodes :
             IF mathNodes # <<>>
             THEN Some(Flatten([i \in 1..Len(mathNodes) |-> textContent(mathNodes[i])],
                               1, Len(mathNodes), ""))
             ELSE value)
      ELSE value)

\* A geometry that is zeroed, not absent, for a cell without geometry element.
CellGeometryZeroed(cell) ==
    Bind(getElementsByTagName(cell, "mxGeometry"), LAMBDA g :
      [some |-> TRUE,
       v |-> [name \in {"x", "y", "width", "height"} |->
                 IF g = <<>> THEN parseFloat("0")
                 ELSE parseFloat(OrDefault(getAttribute(g[1], name), "0"))]])

CellGeometry(cell) ==
    Bind(getElementsByTagName(cell, "mxGeometry"), LAMBDA g :
      IF g = <<>> THEN None
      ELSE Some([name \in {"x", "y", "width", "height"} |->
                    parseFloat(OrDefault(getAttribute(g[1], name), "0"))]))

FlowchartNode(cell, id) ==
    Bind(OrUndefined(getAttribute(cell, "style")), LAMBDA style :
      [id |-> id, value |-> CellValue(cell), style |-> style, type |-> None,
       vertex |-> TRUE, parentId |-> OrUndefined(getAttribute(cell, "parent")),
       color |-> extractFillColor(OrEmpty(style)), geometry |-> CellGeometry(cell)])

FlowchartEdge(cell, id) ==
    [id |-> id, value |-> CellValue(cell),
     style |-> OrUndefined(getAttribute(cell, "style")), edge |-> TRUE,
     parentId |-> OrUndefined(getAttribute(cell, "parent")),
     sourceId |-> OrUndefined(getAttribute(cell, "source")),
     targetId |-> OrUndefined(getAttribute(cell, "target"))]

\* A map that keeps the earlier entries of a key.
MapSetKeepsAll(nodeMap, entry) == Append(nodeMap, entry)

\* Map.set on the node map, a sequence of entries in insertion order.
MapSet(nodeMap, entry) ==
    LET K == {k \in 1..Len(nodeMap) : nodeMap[k].id = entry.id}
    IN IF K = {} THEN Append(nodeMap, entry)
       ELSE [nodeMap EXCEPT ![Min(K)] = entry]

\* An edge with both ends adds them to the entries the map holds so far.
Track(nodeMap, edge) ==
    IF edge.sourceId.some /\ edge.targetId.some
    THEN [k \in 1..Len(nodeMap) |->
            [nodeMap[k] EXCEPT
                !.outgoing = IF nodeMap[k].id = edge.sourceId.v
                             THEN @ \cup {edge.targetId.v} ELSE @,
                !.incoming = IF nodeMap[k].id = edge.targetId.v
                             THEN @ \cup {edge.sourceId.v} ELSE @]]
    ELSE nodeMap

\* The first pass on one cell.
FirstPassCell(cell, pass) ==
    Bind(getAttribute(cell, "id"), LAMBDA id :
      IF ~id.some \/ id.v = "" THEN pass
      ELSE IF getAttribute(cell, "vertex") = Some("1")
      THEN [pass EXCEPT !.nodeMap = MapSet(@, [id |-> id.v, node |-> FlowchartNode(cell, id.v),
                                               incoming |-> {}, outgoing |-> {}])]
      ELSE IF getAttribute(cell, "edge") = Some("1")
      THEN Bind(FlowchartEdge(cell, id.v), LAMBDA edge :
             [nodeMap |-> Track(pass.nodeMap, edge), edges |-> Append(pass.edges, edge)])
      ELSE pass)

\* The first pass over the cells from the i-th on.
RECURSIVE FirstPass(_, _, _)
FirstPass(cells, i, pass) ==
    IF i > Len(cells) THEN pass
    ELSE FirstPass(cells, i + 1, FirstPassCell(cells[i], pass))

\* The nodes the second pass leaves out.
Skipped(node) ==
    \/ node.parentId = Some("0")
    \/ (node.parentId = Some("1") /\ ~node.vertex)
    \/ (node.style.some /\ includes(node.style.v, "text;html=1"))
    \/ /\ (~node.value.some \/ trim(node.value.v) = "")
       /\ node.style.some
       /\ ~includes(node.style.v, "group")

\* The node of a map entry with its type set.
Classified(e) ==
    [e.node EXCEPT !.type = Some(determineNodeType(detectShapeType(OrEmpty(e.node.style)),
                                                   analyzeNodeContent(OrEmpty(e.node.value)),
                                                   e.incoming # {}, e.outgoing # {}))]

SecondPass(nodeMap) ==
    Bind(SelectSeq(nodeMap, LAMBDA e : ~Skipped(e.node)), LAMBDA kept :
      [k \in 1..Len(kept) |-> Classified(kept[k])])

Elements(nodes, edges) == [null |-> FALSE, nodes |-> nodes, edges |-> edges]

FallbackMinLength == 50

\* The document the text of a page decodes to; Null when it decodes to
\* the empty string or to a text that does not parse.
PageDocument(diagramContent) ==
    Bind(decodeDiagramContent(diagramContent), LAMBDA decodedXml :
      IF decodedXml.st = "throw" \/ decodedXml.v = "" THEN Null
      ELSE Bind(parseFromString(decodedXml.v), LAMBDA workingDoc :
             IF HasParserError(workingDoc) THEN Null ELSE workingDoc))

\* The unwrapping returning null for a container without a page and for
\* a page without text.
UnwrapAlways(xmlDoc) ==
    IF xmlDoc.documentElement.v.tag # "mxfile" THEN xmlDoc
    ELSE Bind(docElementsByTagName(xmlDoc, "diagram"), LAMBDA diagrams :
           IF diagrams = <<>> THEN Null
           ELSE PageDocument(textContent(diagrams[1])))

\* The working document: the one the first page of an mxfile container
\* holds, or the document itself; Null where the function returns null.
Unwrap(xmlDoc) ==
    IF xmlDoc.documentElement.v.tag # "mxfile" THEN xmlDoc
    ELSE Bind(docElementsByTagName(xmlDoc, "diagram"), LAMBDA diagrams :
           IF diagrams = <<>> THEN xmlDoc
           ELSE Bind(textContent(diagrams[1]), LAMBDA diagramContent :
                  IF diagramContent = "" THEN xmlDoc
                  ELSE PageDocument(diagramContent)))

\* The fallback decoding a text of any length.
FallbackTextAnyLength(workingDoc, text) ==
    Bind(decodeDiagramContent(text), LAMBDA decodedXml :
      IF decodedXml.st = "throw" THEN Null
      ELSE IF decodedXml.v = "" THEN workingDoc
      ELSE parseFromString(decodedXml.v))

\* The fallback on one text node: the working document it leaves, Null
\* where an exception ends the function.
FallbackText(workingDoc, text) ==
    IF Len(text) > FallbackMinLength
    THEN Bind(decodeDiagramContent(text), LAMBDA decodedXml :
           IF decodedXml.st = "throw" THEN Null
           ELSE IF decodedXml.v = "" THEN workingDoc
           ELSE parseFromString(decodedXml.v))
    ELSE workingDoc

\* The fallback over the text nodes from the i-th on, which stops at the
\* first text that gives a document with cells.
RECURSIVE FallbackScan(_, _, _)
FallbackScan(workingDoc, texts, i) ==
    IF i > Len(texts) THEN workingDoc
    ELSE Bind(FallbackText(workingDoc, trim(texts[i])), LAMBDA newDoc :
           IF newDoc.null THEN Null
           ELSE IF docElementsByTagName(newDoc, "mxCell") # <<>> THEN newDoc
           ELSE FallbackScan(newDoc, texts, i + 1))

Fallback(workingDoc) ==
    IF docElementsByTagName(workingDoc, "mxCell") = <<>>
    THEN FallbackScan(workingDoc, TextNodes(workingDoc.documentElement.v), 1)
    ELSE workingDoc

\* The function from the fallback on, given the working document.
ExtractFrom(doc) ==
    Bind(Fallback(doc), LAMBDA workingDoc :
      IF workingDoc.null THEN Null
      ELSE Bind(FirstPass(docElementsByTagName(workingDoc, "mxCell"), 1,
                          [nodeMap |-> <<>>, edges |-> <<>>]),
                LAMBDA pass : Elements(SecondPass(pass.nodeMap), pass.edges)))

\* The function returning null for a document without cells.
extractNullWithoutCells(xmlDoc) ==
    IF xmlDoc.null \/ ~xmlDoc.documentElement.some THEN Null
    ELSE Bind(Unwrap(xmlDoc), LAMBDA unwrapped :
           IF unwrapped.null THEN Null
           ELSE IF docElementsByTagName(unwrapped, "mxCell") = <<>> THEN Null
           ELSE ExtractFrom(unwrapped))

extractFlowchartElements(xmlDoc) ==
    IF xmlDoc.null \/ ~xmlDoc.documentElement.some THEN Null
    ELSE Bind(Unwrap(xmlDoc), LAMBDA unwrapped :
           IF unwrapped.null THEN Null ELSE ExtractFrom(unwrapped))

(***************************************************************************)
(* Analysis: buildGraph, detectCycles, analyzeFlowchart                    *)
(***************************************************************************)
\* The truth value of an optional string: undefined and "" are falsy.
Truthy(x) == x.some /\ x.v # ""

\* The graph as the list of its own keys in insertion order and the array
\* of each; the ids of the inputs are no property names of Object.prototype.
buildGraph(edges) ==
    Bind(SelectSeq(edges, LAMBDA edge : Truthy(edge.sourceId) /\ Truthy(edge.targetId)),
         LAMBDA linked :
           [sourceId \in {linked[k].sourceId.v : k \in 1..Len(linked)} |->
               Bind(SelectSeq(linked, LAMBDA edge : edge.sourceId.v = sourceId),
                    LAMBDA out : [k \in 1..Len(out) |-> out[k].targetId.v])])

\* graph[nodeId] || []
Neighbors(graph, nodeId) == IF nodeId \in DOMAIN graph THEN graph[nodeId] ELSE <<>>

\* hasCycle(nodeId), and its loop over the neighbors from the i-th on; dfs
\* holds the two sets and the value returned.
RECURSIVE hasCycle(_, _, _)
RECURSIVE hasCycleFrom(_, _, _, _)
hasCycle(graph, nodeId, dfs) ==
    IF nodeId \in dfs.recursionStack THEN [dfs EXCEPT !.found = TRUE]
    ELSE IF nodeId \in dfs.visited THEN [dfs EXCEPT !.found = FALSE]
    ELSE Bind(hasCycleFrom(graph, Neighbors(graph, nodeId), 1,
                           [visited |-> dfs.visited \cup {nodeId},
                            recursionStack |-> dfs.recursionStack \cup {nodeId},
                            found |-> FALSE]),
              LAMBDA after :
                IF after.found THEN after
                ELSE [after EXCEPT !.recursionStack = @ \ {nodeId}])

hasCycleFrom(graph, neighbors, i, dfs) ==
    IF i > Len(neighbors) THEN [dfs EXCEPT !.found = FALSE]
    ELSE Bind(hasCycle(graph, neighbors[i], dfs), LAMBDA after :
           IF after.found THEN after
           ELSE hasCycleFrom(graph, neighbors, i + 1, after))

LoopIssue == "Potential infinite loop detected in the flowchart."

\* The loop of detectCycles over the nodes from the i-th on.
RECURSIVE detectCyclesFrom(_, _, _, _)
detectCyclesFrom(graph, nodes, i, dfs) ==
    IF i > Len(nodes) THEN <<>>
    ELSE IF nodes[i].id \in dfs.visited THEN detectCyclesFrom(graph, nodes, i + 1, dfs)
    ELSE Bind(hasCycle(graph, nodes[i].id, dfs), LAMBDA after :
           IF after.found THEN <<LoopIssue>>
           ELSE detectCyclesFrom(graph, nodes, i + 1, after))

detectCycles(nodes, edges) ==
    detectCyclesFrom(buildGraph(edges), nodes, 1,
                     [visited |-> {}, recursionStack |-> {}, found |-> FALSE])

Upper == [c \in CharsOf(LowerCase) |-> Ch(UpperCase, IndexOf(LowerCase, c, 1))]

toUpperCase(s) ==
    Flatten([i \in 1..Len(s) |-> IF Ch(s, i) \in DOMAIN Upper THEN Upper[Ch(s, i)] ELSE Ch(s, i)],
            1, Len(s), "")

\* node.value || `(ID: ${node.id})`
Label(node) == IF Truthy(node.value) THEN node.value.v ELSE "(ID: " \o node.id \o ")"

OfType(nodes, types) == SelectSeq(nodes, LAMBDA node : node.type.some /\ node.type.v \in types)

\* The categorization that drops the nodes of the default case.
NoDefaultBucket(nodes) == OfType(nodes, {"process"})

\* The nodes of the cases 'process' and default.
ProcessBucket(nodes) ==
    SelectSeq(nodes, LAMBDA node :
        ~(node.type.some /\ node.type.v \in {"start", "end", "decision", "input", "output"}))

StartIssues(startNodes) ==
    IF startNodes = <<>>
    THEN <<"Flowchart must have exactly one start node, but none were found.">>
    ELSE IF Len(startNodes) > 1
    THEN <<"Flowchart must have exactly one start node, but "
           \o ToString(Len(startNodes)) \o " were found.">>
    ELSE <<>>

EndIssues(endNodes) ==
    IF endNodes = <<>>
    THEN <<"Flowchart must have at least one end node, but none were found.">>
    ELSE <<>>

DisconnectedIssues(nodes, edges) ==
    IF Len(nodes) > 1
    THEN Bind({edges[k].sourceId.v : k \in {j \in 1..Len(edges) : Truthy(edges[j].sourceId)}}
              \cup {edges[k].targetId.v : k \in {j \in 1..Len(edges) : Truthy(edges[j].targetId)}},
              LAMBDA connectedNodeIds :
                Bind(SelectSeq(nodes, LAMBDA node : node.id \notin connectedNodeIds),
                     LAMBDA alone :
                       [k \in 1..Len(alone) |->
                           "Node \"" \o Label(alone[k]) \o "\" is disconnected."]))
    ELSE <<>>

\* outgoingConnections[id] || 0
OutgoingCount(edges, id) ==
    Cardinality({k \in 1..Len(edges) : Truthy(edges[k].sourceId) /\ edges[k].sourceId.v = id})

DecisionIssues(decisionNodes, edges) ==
    Bind(SelectSeq(decisionNodes, LAMBDA node : OutgoingCount(edges, node.id) < 2),
         LAMBDA few :
           [k \in 1..Len(few) |->
               "Decision node \"" \o Label(few[k])
               \o "\" should have at least two outgoing branches, but has "
               \o ToString(OutgoingCount(edges, few[k].id)) \o "."])

\* The dead-end candidates without an outgoing edge.
DeadEnds(deadEndCandidates, edges) ==
    SelectSeq(deadEndCandidates, LAMBDA node : OutgoingCount(edges, node.id) = 0)

\* node.type!.slice(1) throws for a node without a type.
DeadEndThrows(deadEnds) == \E k \in 1..Len(deadEnds) : ~deadEnds[k].type.some

DeadEndIssues(deadEnds) ==
    [k \in 1..Len(deadEnds) |->
        toUpperCase(At(deadEnds[k].type.v, 1)) \o From(deadEnds[k].type.v, 2)
        \o " node \"" \o Label(deadEnds[k]) \o "\" is a dead end."]

\* The analysis object once the nodes are categorized, and the outcome of
\* the function with the issues of the steps 2 to 5.
Validate(analysis, nodes, edges) ==
    Bind(DeadEnds(analysis.processNodes \o analysis.ioNodes \o analysis.decisionNodes, edges),
         LAMBDA deadEnds :
           IF DeadEndThrows(deadEnds) THEN [st |-> "throw", v |-> Null]
           ELSE Return([analysis EXCEPT !.issues =
                           StartIssues(analysis.startNodes)
                           \o EndIssues(analysis.endNodes)
                           \o DisconnectedIssues(nodes, edges)
                           \o detectCycles(nodes, edges)
                           \o DecisionIssues(analysis.decisionNodes, edges)
                           \o DeadEndIssues(deadEnds)]))

analyzeFlowchart(elements) ==
    IF elements.null \/ elements.nodes = <<>> THEN Return(Null)
    ELSE Validate([null |-> FALSE,
                   totalElements |-> Len(elements.nodes) + Len(elements.edges),
                   startNodes |-> OfType(elements.nodes, {"start"}),
                   endNodes |-> OfType(elements.nodes, {"end"}),
                   decisionNodes |-> OfType(elements.nodes, {"decision"}),
                   processNodes |-> ProcessBucket(elements.nodes),
                   ioNodes |-> OfType(elements.nodes, {"input", "output"}),
                   connections |-> elements.edges,
                   issues |-> <<>>],
                  elements.nodes, elements.edges)

(***************************************************************************)
(* extractXmlFromSvg.  The outcome holds Some(text) or None (null); st is  *)
(* "outside" when an inflated stream is outside the model.                 *)
(***************************************************************************)
\* atob, pako.inflate and decodeURIComponent in turn.
InflateZlibBase64(content) ==
    Bind(atob(content), LAMBDA decodedData :
      IF decodedData.st # "ok" THEN decodedData
      ELSE Bind(inflate(decodedData.v), LAMBDA inflated :
             IF inflated.st # "ok" THEN inflated
             ELSE decodeURIComponent(inflated.v)))

\* The inner try block: the text of the first page of an mxfile, decoded;
\* decodedUri itself when it is no mxfile, has no page, or an error is caught.
UnwrapMxfile(decodedUri) ==
    Bind(parseFromString(decodedUri), LAMBDA doc2 :
      IF doc2.documentElement.v.tag # "mxfile" THEN Return(Some(decodedUri))
      ELSE Bind(getElementsByTagName(doc2.documentElement.v, "diagram"), LAMBDA diagrams :
             IF diagrams = <<>> THEN Return(Some(decodedUri))
             ELSE Bind(InflateZlibBase64(textContent(diagrams[1])), LAMBDA finalXml :
                    CASE finalXml.st = "ok" -> Return(Some(finalXml.v))
                      [] finalXml.st = "throws" -> Return(Some(decodedUri))
                      [] OTHER -> [st |-> "outside", v |-> None])))

\* The function returning null when the decompression fails.
NullOnFailure(content) ==
    IF ~HasParserError(parseFromString(content)) THEN Return(Some(content))
    ELSE Bind(InflateZlibBase64(content), LAMBDA decodedUri :
           CASE decodedUri.st = "ok" -> UnwrapMxfile(decodedUri.v)
             [] decodedUri.st = "throws" -> Return(None)
             [] OTHER -> [st |-> "outside", v |-> None])

\* The function from the content attribute on, when it is not empty.
FromContent(content) ==
    IF ~HasParserError(parseFromString(content)) THEN Return(Some(content))
    ELSE Bind(InflateZlibBase64(content), LAMBDA decodedUri :
           CASE decodedUri.st = "ok" -> UnwrapMxfile(decodedUri.v)
             [] decodedUri.st = "throws" -> Return(Some(content))
             [] OTHER -> [st |-> "outside", v |-> None])

extractXmlFromSvg(svgContent) ==
    Bind(parseFromString(svgContent).documentElement.v, LAMBDA rootSvg :
      IF toLowerCase(rootSvg.tag) = "svg" /\ getAttribute(rootSvg, "content").some
      THEN Bind(getAttribute(rootSvg, "content").v, LAMBDA content :
             IF content # "" THEN FromContent(content) ELSE Return(None))
      ELSE Return(None))

(***************************************************************************)
(* Inputs of the decoder: small XML documents and other texts, in each of  *)
(* the encodings the diagram tool emits.                                   *)
(***************************************************************************)
MaxPieces == 2

Pieces == {"b", " ", "<b/>", "&lt;", "&amp;", "'", "%", "+"}

RECURSIVE Bodies(_)
Bodies(n) ==
    IF n = 0 THEN {""}
    ELSE LET B == Bodies(n - 1) IN B \cup {b \o p : b \in B, p \in Pieces}

\* Well-formed XML documents.
XmlTexts ==
    {"<a>" \o b \o "</a>" : b \in Bodies(MaxPieces)}
    \cup {"<a/>", " <a/>", "\n<a b=\"1\"/>\n",
          "<mxGraphModel><root><mxCell id=\"0\"/></root></mxGraphModel>"}

\* Texts that are no XML document.
OtherTexts ==
    {"", "   ", "hello", "a<b", "%", "%3Ca/%3E", "&lt;", "&amp;lt;a/&amp;gt;",
     "&nbsp;&lt;a/&gt;", "b&lt;a/&gt;", "AAAA", "AQ==", "Bw==", "AQAA//8=", "=", "A"}

\* The entity escaping of the diagram tool: "&" first, then the markup characters.
escapeHtml(x) ==
    replaceAll(
      replaceAll(
        replaceAll(
          replaceAll(
            replaceAll(x, "&", "&amp;"),
            "<", "&lt;"),
          ">", "&gt;"),
        "\"", "&quot;"),
      "'", "&#39;")

\* base64(rawDeflate(percentEncode(x)))
compress(x) == btoa(deflateRaw(StringToBytes(encodeURIComponent(x))))

Forms == {"xml", "escaped", "deflated", "uriDeflated", "deflatedPlain", "cut"}

Encode(f) ==
    LET x == f.text
    IN CASE f.form = "xml" -> x
         [] f.form = "escaped" -> escapeHtml(x)
         [] f.form = "deflated" -> compress(x)
         [] f.form = "uriDeflated" -> encodeURIComponent(compress(x))
         [] f.form = "deflatedPlain" -> btoa(deflateRaw(StringToBytes(x)))
         [] f.form = "cut" -> SubSeq(compress(x), 1, Len(compress(x)) - 4)

DecodeFixtures ==
    {f \in [text : XmlTexts \cup OtherTexts, form : Forms] : InDomain(Encode(f))}

PakoBuilds == {"throws", "undefined", "partial"}

\* A call that has not been made yet.
NotCalled == [st |-> "pending", v |-> Null]

NoText == [st |-> "pending", v |-> None]

(***************************************************************************)
(* Inputs of the parser and of the extraction: diagram documents, encoded  *)
(* in the forms above and wrapped as a diagram file holds them             *)
(***************************************************************************)
Attr(name, value) == " " \o name \o "=\"" \o value \o "\""

Cell(attrs, kids) ==
    "<mxCell" \o attrs \o (IF kids = "" THEN "/>" ELSE ">" \o kids \o "</mxCell>")

Geometry ==
    "<mxGeometry" \o Attr("x", "10") \o Attr("y", "20") \o Attr("width", "80")
                  \o Attr("height", "40") \o Attr("as", "geometry") \o "/>"

Vertex(id, value, style) ==
    Cell(Attr("id", id) \o Attr("value", value) \o Attr("style", style)
         \o Attr("vertex", "1") \o Attr("parent", "1"), Geometry)

Edge(id, source, target) ==
    Cell(Attr("id", id) \o Attr("edge", "1") \o Attr("parent", "1")
         \o Attr("source", source) \o Attr("target", target), "")

Layers == Cell(Attr("id", "0"), "") \o Cell(Attr("id", "1") \o Attr("parent", "0"), "")

GraphModel(cells) == "<mxGraphModel><root>" \o cells \o "</root></mxGraphModel>"

TwoNodeDiagram ==
    GraphModel(Layers \o Vertex("2", "Start", "ellipse")
               \o Cell(Attr("id", "3") \o Attr("value", "Print x") \o Attr("vertex", "1"), "")
               \o Edge("4", "2", "3"))

\* Three vertices: a geometry element with x and width only, one without any of
\* the four fields, and no geometry element.
GeometryDiagram ==
    GraphModel(Layers
               \o Cell(Attr("id", "2") \o Attr("value", "A") \o Attr("vertex", "1"),
                       "<mxGeometry" \o Attr("x", "5") \o Attr("width", "7")
                                     \o Attr("as", "geometry") \o "/>")
               \o Cell(Attr("id", "3") \o Attr("value", "B") \o Attr("vertex", "1"),
                       "<mxGeometry" \o Attr("as", "geometry") \o "/>")
               \o Cell(Attr("id", "4") \o Attr("value", "C") \o Attr("vertex", "1"), ""))

\* Two ovals without a keyword in their text, an edge from the first to the
\* second, and an edge to the first that has no source: once with the edge cells
\* after the vertex cells, once with the same cells and the edge cells first.
Oval(id, value) ==
    Cell(Attr("id", id) \o Attr("value", value) \o Attr("style", "ellipse")
         \o Attr("vertex", "1") \o Attr("parent", "1"), "")

SourcelessEdge(id, target) ==
    Cell(Attr("id", id) \o Attr("edge", "1") \o Attr("parent", "1") \o Attr("target", target), "")

OvalDiagram ==
    GraphModel(Layers \o Oval("2", "A") \o Oval("3", "B") \o Edge("4", "2", "3")
               \o SourcelessEdge("5", "2"))

OvalDiagramEdgesFirst ==
    GraphModel(Layers \o Edge("4", "2", "3") \o SourcelessEdge("5", "2") \o Oval("2", "A")
               \o Oval("3", "B"))

DiagramTexts ==
    {TwoNodeDiagram, GeometryDiagram, OvalDiagram, OvalDiagramEdgesFirst, GraphModel(""),
     "<mxGraphModel><root>", "<a>&lt;b/&gt;</a>", "hello", "", "  "}

\* The encodings of a diagram text among the forms above.
DiagramForms == {"xml", "escaped", "deflated", "cut"}

Wraps == {"none", "mxfile", "mxfileChild", "mxfileNoDiagram", "other"}

\* The text the user supplies: the payload itself, the payload as the text
\* of the first page of a diagram file, as a child element of that page,
\* beside a diagram file without pages, or as the text of another document.
Wrap(w, payload) ==
    CASE w = "none" -> payload
      [] w = "mxfile" -> "<mxfile><diagram>" \o escapeHtml(payload) \o "</diagram></mxfile>"
      [] w = "mxfileChild" -> "<mxfile><diagram>" \o payload \o "</diagram></mxfile>"
      [] w = "mxfileNoDiagram" -> "<mxfile><page>" \o escapeHtml(payload) \o "</page></mxfile>"
      [] w = "other" -> "<doc>" \o escapeHtml(payload) \o "</doc>"

RawOf(f) == Wrap(f.wrap, Encode(f))

\* Every text these inputs hand to the decoder satisfies InDomain.
\* Five vertices: without value and without style, without value and with a
\* shape style, without value and with the group style, with a blank value and a
\* shape style, with a value and without style.
EmptyValueDiagram ==
    GraphModel(Layers
               \o Cell(Attr("id", "2") \o Attr("vertex", "1") \o Attr("parent", "1"), "")
               \o Cell(Attr("id", "3") \o Attr("style", "ellipse") \o Attr("vertex", "1")
                       \o Attr("parent", "1"), "")
               \o Cell(Attr("id", "4") \o Attr("style", "group") \o Attr("vertex", "1")
                       \o Attr("parent", "1"), "")
               \o Cell(Attr("id", "5") \o Attr("value", " ") \o Attr("style", "ellipse")
                       \o Attr("vertex", "1") \o Attr("parent", "1"), "")
               \o Cell(Attr("id", "6") \o Attr("value", "A") \o Attr("vertex", "1")
                       \o Attr("parent", "1"), ""))

\* Two vertex cells with the id 2, and one with the id 3.
DuplicateIdDiagram ==
    GraphModel(Layers \o Oval("2", "A") \o Oval("2", "B") \o Oval("3", "C"))

\* Text spans: a diagram with one cell in 50 characters or fewer, diagrams with one
\* cell in more, a diagram without cells, and a text that is no diagram.
ShortSpan == "<r><mxCell id=\"9\" value=\"S\" vertex=\"1\"/></r>"

FirstSpan == GraphModel(Cell(Attr("id", "7") \o Attr("value", "First") \o Attr("vertex", "1"), ""))

SecondSpan == GraphModel(Cell(Attr("id", "8") \o Attr("value", "Second") \o Attr("vertex", "1"), ""))

EmptySpan == GraphModel("<note>a diagram without any cell</note>")

ProseSpan == "This text is long enough, but it holds no diagram!"

\* A document without cells whose elements hold the spans as their texts.
RECURSIVE SpanElements(_, _)
SpanElements(spans, i) ==
    IF i > Len(spans) THEN ""
    ELSE "<t>" \o escapeHtml(spans[i]) \o "</t>" \o SpanElements(spans, i + 1)

SpanDocument(spans) == "<doc>" \o SpanElements(spans, 1) \o "</doc>"

SpanDocuments ==
    {SpanDocument(<<EmptySpan, FirstSpan, SecondSpan>>),
     SpanDocument(<<ShortSpan>>),
     SpanDocument(<<ProseSpan \o "!", EmptySpan>>),
     SpanDocument(<<ShortSpan, "  " \o compress(SecondSpan) \o "  ", FirstSpan>>)}

\* The documents given as they are, without wrapping and encoding.
PlainDocuments == {EmptyValueDiagram, DuplicateIdDiagram} \cup SpanDocuments

ExtractFixtures ==
    {f \in [wrap : Wraps, form : DiagramForms, text : DiagramTexts] :
        f.wrap = "mxfileChild" => f.form = "xml"}
      \cup {[wrap |-> "none", form |-> "xml", text |-> t] : t \in PlainDocuments}

(***************************************************************************)
(* decodeDiagramContent applied to one input                               *)
(***************************************************************************)
InitDecode ==
    /\ pako \in PakoBuilds
    /\ fixture \in DecodeFixtures
    /\ data = Encode(fixture)
    /\ decoded = Pending
    /\ rawInput = ""
    /\ parsed = NotCalled
    /\ docInput = Null
    /\ extracted = NotCalled
    /\ elementsInput = Null
    /\ analyzed = NotCalled
    /\ svgInput = ""
    /\ svgXml = NoText
    /\ editorXml = ""
    /\ AppConstructed
    /\ ClassifyNotCalled
    /\ EditorNotMounted

DecodeCall ==
    /\ decoded.st = "pending"
    /\ decoded' = decodeDiagramContent(data)
    /\ UNCHANGED <<pako, fixture, data, rawInput, parsed, docInput, extracted, elementsInput, analyzed,
                   svgInput, svgXml,
                   appVars,
                   classifyVars, editorVars>>

NextDecode == DecodeCall

SpecDecode == InitDecode /\ [][NextDecode]_vars

(***************************************************************************)
(* parseDrawioXml applied to the text the user supplies, and               *)
(* extractFlowchartElements applied to a document: the parsed one, or a    *)
(* document without a root element                                         *)
(***************************************************************************)
InitExtract ==
    /\ pako \in PakoBuilds
    /\ fixture \in ExtractFixtures
    /\ data = ""
    /\ decoded = Pending
    /\ rawInput = RawOf(fixture)
    /\ parsed = NotCalled
    /\ docInput = Null
    /\ extracted = NotCalled
    /\ elementsInput = Null
    /\ analyzed = NotCalled
    /\ svgInput = ""
    /\ svgXml = NoText
    /\ editorXml = ""
    /\ AppConstructed
    /\ ClassifyNotCalled
    /\ EditorNotMounted

ParseCall ==
    /\ parsed.st = "pending"
    /\ extracted.st = "pending"
    /\ parsed' = parseDrawioXml(rawInput)
    /\ UNCHANGED <<pako, fixture, data, decoded, rawInput, docInput, extracted, elementsInput, analyzed,
                   svgInput, svgXml,
                   appVars,
                   classifyVars, editorVars>>

ExtractCall ==
    /\ extracted.st = "pending"
    /\ \E d \in {EmptyDocument} \cup (IF parsed.st = "return" THEN {parsed.v} ELSE {}) :
          /\ docInput' = d
          /\ extracted' = Return(extractFlowchartElements(d))
    /\ UNCHANGED <<pako, fixture, data, decoded, rawInput, parsed, elementsInput, analyzed,
                   svgInput, svgXml,
                   appVars,
                   classifyVars, editorVars>>

NextExtract == ParseCall \/ ExtractCall

SpecExtract == InitExtract /\ [][NextExtract]_vars

(***************************************************************************)
(* Inputs of the analysis: the null input and the collections of at most   *)
(* MaxElements nodes and edges. The i-th node has the id i, as the cells   *)
(* of a diagram have; a node has a type of the classification or none, an  *)
(* edge has each of its ends at one of the first three ids, the id of a    *)
(* node or of no node as the input has that many nodes or not, or missing. *)
(***************************************************************************)
MaxElements == 3

NodeTypes ==
    {None} \cup {Some(t) : t \in {"start", "end", "decision", "process", "input", "output",
                                  "unknown"}}

NodeValues == {None, Some("x")}

EdgeEnds == {None, Some("1"), Some("2"), Some("3")}

\* The node list of the values and types f gives, the edge list of the ends g gives.
NodeList(f) ==
    [i \in DOMAIN f |-> [id |-> ToString(i), value |-> f[i].value, type |-> f[i].type]]

EdgeList(g) ==
    [i \in DOMAIN g |-> [id |-> "e" \o ToString(i), edge |-> TRUE,
                         sourceId |-> g[i].sourceId, targetId |-> g[i].targetId]]

\* The numbers of nodes and of edges of an input.
Sizes == {c \in (0..MaxElements) \X (0..MaxElements) : c[1] + c[2] <= MaxElements}

(***************************************************************************)
(* analyzeFlowchart applied to one input                                   *)
(***************************************************************************)
InitAnalyze ==
    /\ pako = "throws"
    /\ fixture = [text |-> "", form |-> "xml"]
    /\ data = ""
    /\ decoded = Pending
    /\ rawInput = ""
    /\ parsed = NotCalled
    /\ docInput = Null
    /\ extracted = NotCalled
    /\ \/ elementsInput = Null
       \/ \E c \in Sizes :
             \E f \in [1..c[1] -> [value : NodeValues, type : NodeTypes]],
                g \in [1..c[2] -> [sourceId : EdgeEnds, targetId : EdgeEnds]] :
                elementsInput = Elements(NodeList(f), EdgeList(g))
    /\ analyzed = NotCalled
    /\ svgInput = ""
    /\ svgXml = NoText
    /\ editorXml = ""
    /\ AppConstructed
    /\ ClassifyNotCalled
    /\ EditorNotMounted

AnalyzeCall ==
    /\ analyzed.st = "pending"
    /\ analyzed' = analyzeFlowchart(elementsInput)
    /\ UNCHANGED <<pako, fixture, data, decoded, rawInput, parsed, docInput, extracted, elementsInput,
                   svgInput, svgXml,
                   appVars,
                   classifyVars, editorVars>>

NextAnalyze == AnalyzeCall

SpecAnalyze == InitAnalyze /\ [][NextAnalyze]_vars

(***************************************************************************)
(* Inputs of extractXmlFromSvg: SVG files whose root holds a diagram in    *)
(* its content attribute, in the encodings below, and files without one    *)
(***************************************************************************)
\* base64(zlib(percentEncode(x))), the encoding extractXmlFromSvg inflates.
compressZlib(x) == btoa(deflate(StringToBytes(encodeURIComponent(x))))

\* A diagram file of one page with the given text.
Mxfile(page) ==
    "<mxfile host=\"app.diagrams.net\"><diagram id=\"p1\" name=\"Page-1\">" \o page
    \o "</diagram></mxfile>"

SvgDiagrams == {TwoNodeDiagram, GraphModel(""), "<a/>", "hello"}

\* The forms in which the attribute holds the diagram x: as XML, compressed
\* as the diagram tool does (raw deflate), compressed with a zlib header,
\* cut short, or as a diagram file whose page is compressed, the file
\* itself as XML or compressed.
ContentForms ==
    {"xml", "raw", "zlib", "cut", "wrapRaw", "wrapZlib", "zlibWrapRaw", "zlibWrapZlib",
     "zlibNoPage"}

ContentOf(form, x) ==
    CASE form = "xml" -> x
      [] form = "raw" -> compress(x)
      [] form = "zlib" -> compressZlib(x)
      [] form = "cut" -> SubSeq(compressZlib(x), 1, Len(compressZlib(x)) - 4)
      [] form = "wrapRaw" -> Mxfile(compress(x))
      [] form = "wrapZlib" -> Mxfile(compressZlib(x))
      [] form = "zlibWrapRaw" -> compressZlib(Mxfile(compress(x)))
      [] form = "zlibWrapZlib" -> compressZlib(Mxfile(compressZlib(x)))
      [] form = "zlibNoPage" -> compressZlib("<mxfile>" \o x \o "</mxfile>")

\* The files: the root svg (in either case) with the attribute, the root
\* svg without it or with an empty one, another root, and a text that does
\* not parse.
SvgShapes == {"svg", "SVG", "noContent", "emptyContent", "otherRoot", "malformed"}

SvgFile(shape, content) ==
    CASE shape = "svg" ->
           "<svg xmlns=\"http://www.w3.org/2000/svg\"" \o Attr("content", escapeHtml(content))
           \o "><g/></svg>"
      [] shape = "SVG" -> "<SVG" \o Attr("content", escapeHtml(content)) \o "/>"
      [] shape = "noContent" -> "<svg xmlns=\"http://www.w3.org/2000/svg\"><g/></svg>"
      [] shape = "emptyContent" -> "<svg content=\"\"/>"
      [] shape = "otherRoot" -> "<div" \o Attr("content", escapeHtml(content)) \o "/>"
      [] shape = "malformed" -> "<svg" \o Attr("content", escapeHtml(content)) \o ">"

SvgFixtures ==
    {f \in [shape : SvgShapes, form : ContentForms, text : SvgDiagrams] :
        f.shape \notin {"svg", "SVG"} => (f.form = "xml" /\ f.text = TwoNodeDiagram)}

\* The file of each fixture.
SvgFiles == [f \in SvgFixtures |-> SvgFile(f.shape, ContentOf(f.form, f.text))]

(***************************************************************************)
(* extractXmlFromSvg applied to a file, and parseDrawioXml applied to the  *)
(* text it returns                                                         *)
(***************************************************************************)
InitSvg ==
    /\ pako \in PakoBuilds
    /\ fixture \in SvgFixtures
    /\ data = ""
    /\ decoded = Pending
    /\ rawInput = ""
    /\ parsed = NotCalled
    /\ docInput = Null
    /\ extracted = NotCalled
    /\ elementsInput = Null
    /\ analyzed = NotCalled
    /\ svgInput = SvgFiles[fixture]
    /\ svgXml = NoText
    /\ editorXml = ""
    /\ AppConstructed
    /\ ClassifyNotCalled
    /\ EditorNotMounted

SvgCall ==
    /\ svgXml.st = "pending"
    /\ svgXml' = extractXmlFromSvg(svgInput)
    /\ UNCHANGED <<pako, fixture, data, decoded, rawInput, parsed, docInput, extracted,
                   elementsInput, analyzed, svgInput,
                   appVars,
                   classifyVars, editorVars>>

SvgParseCall ==
    /\ svgXml.st = "return"
    /\ svgXml.v.some
    /\ parsed.st = "pending"
    /\ rawInput' = svgXml.v.v
    /\ parsed' = parseDrawioXml(svgXml.v.v)
    /\ UNCHANGED <<pako, fixture, data, decoded, docInput, extracted, elementsInput, analyzed,
                   svgInput, svgXml,
                   appVars,
                   classifyVars, editorVars>>

NextSvg == SvgCall \/ SvgParseCall

SpecSvg == InitSvg /\ [][NextSvg]_vars

(***************************************************************************)
(* The App component (src/unnamed/part_000): the editor's drawing, the     *)
(* guard state of code generation, and the handlers of the editor's save   *)
(* event, of the language selection and of the two buttons.  An async      *)
(* handler is one action per stretch between two awaits.  The texts the    *)
(* component only displays (analysisFeedback, generatedCode,               *)
(* codeGenerationError) are not part of the state.  A second click on      *)
(* Analyze Flowchart while an analysis is under way is not taken.          *)
(***************************************************************************)
DataUriPrefix == "data:image/svg+xml;base64,"

LooksLikeXml(xml) == xml # "" /\ startsWith(trim(xml), "<")

\* handleFlowchartChange: the text it passes to setFlowchartXml.
XmlToSet(newXml) ==
    IF LooksLikeXml(newXml) THEN newXml
    ELSE IF startsWith(newXml, DataUriPrefix)
    THEN Bind(From(newXml, Len(DataUriPrefix) + 1), LAMBDA base64Data :
           IF base64Data = "" THEN ""
           ELSE Bind(atob(base64Data), LAMBDA decodedSvg :
                  IF decodedSvg.st # "ok" THEN ""
                  ELSE Bind(extractXmlFromSvg(BytesToString(decodedSvg.v)), LAMBDA embeddedXml :
                         IF embeddedXml.st = "return" /\ embeddedXml.v.some /\ embeddedXml.v.v # ""
                         THEN embeddedXml.v.v
                         ELSE "")))
    ELSE ""

\* The effect on flowchartXml: the value it leaves in analysisHasErrors.
FlowchartXmlEffect(xml, hasErrors) ==
    IF LooksLikeXml(xml) THEN hasErrors
    ELSE IF xml = "" THEN TRUE
    ELSE IF ~startsWith(trim(xml), "<") THEN TRUE
    ELSE hasErrors

\* handleFlowchartChange, and the effect React runs when flowchartXml has changed.
handleFlowchartChange(newXml) ==
    \E xmlToSet \in {XmlToSet(newXml)} :
       /\ flowchartXml' = xmlToSet
       /\ analysisHasErrors' =
             IF xmlToSet # flowchartXml THEN FlowchartXmlEffect(xmlToSet, analysisHasErrors)
             ELSE analysisHasErrors

\* captureCurrentState of the editor on the drawing xml, then parseDrawioXml and
\* extractFlowchartElements on the captured text: the elements, or the error thrown.
CaptureAndExtract(xml) ==
    IF ~LooksLikeXml(xml) THEN [st |-> "throw", v |-> Null]
    ELSE Bind(parseDrawioXml(xml), LAMBDA doc :
           IF doc.st = "throw" THEN [st |-> "throw", v |-> Null]
           ELSE Return(extractFlowchartElements(doc.v)))

\* The severities that keep code generation disabled.
BlockingSeverities == {"error", "system_error", "warning"}

\* The replies of the backend to an analysis request: a failure, or the set of
\* the severities of its analysis_results.
AnalysisResponses ==
    {[ok |-> FALSE, severities |-> {}]}
        \cup {[ok |-> TRUE, severities |-> r] : r \in {{}, {"info"}, {"warning"}, {"error", "info"},
                                                      {"system_error"}}}

\* The drawings of the editor.
Drawings == {"", GraphModel(""), TwoNodeDiagram, "<mxGraphModel><root>"}

Languages == {"python"}

InitApp ==
    /\ pako = "throws"
    /\ fixture = [text |-> "", form |-> "xml"]
    /\ data = ""
    /\ decoded = Pending
    /\ rawInput = ""
    /\ parsed = NotCalled
    /\ docInput = Null
    /\ extracted = NotCalled
    /\ elementsInput = Null
    /\ analyzed = NotCalled
    /\ svgInput = ""
    /\ svgXml = NoText
    /\ editorXml \in Drawings
    /\ AppConstructed
    /\ ClassifyNotCalled
    /\ EditorNotMounted

\* The user changes the drawing in the editor.
EditDrawing ==
    /\ \E xml \in Drawings \ {editorXml} : editorXml' = xml
    /\ UNCHANGED <<pako, fixture, data, decoded, rawInput, parsed, docInput, extracted,
                   elementsInput, analyzed, svgInput, svgXml, flowchartXml, analysisHasErrors,
                   selectedLanguage, isGeneratingCode, analyzeCall, generateCall, lastAnalysis,
                   lastRequest,
                   classifyVars, editorVars>>

\* The editor saves the drawing: onSave is handleFlowchartChange.
SaveDrawing ==
    /\ editorXml # ""
    /\ handleFlowchartChange(editorXml)
    /\ UNCHANGED <<pako, fixture, data, decoded, rawInput, parsed, docInput, extracted,
                   elementsInput, analyzed, svgInput, svgXml, editorXml, selectedLanguage,
                   isGeneratingCode, analyzeCall, generateCall, lastAnalysis, lastRequest,
                   classifyVars, editorVars>>

\* onLanguageChange is setSelectedLanguage.
SelectLanguage ==
    /\ \E language \in (Languages \cup {""}) \ {selectedLanguage} : selectedLanguage' = language
    /\ UNCHANGED <<pako, fixture, data, decoded, rawInput, parsed, docInput, extracted,
                   elementsInput, analyzed, svgInput, svgXml, editorXml, flowchartXml,
                   analysisHasErrors, isGeneratingCode, analyzeCall, generateCall, lastAnalysis,
                   lastRequest,
                   classifyVars, editorVars>>

\* handleAnalyzeFlowchart up to the await of the capture; the button is disabled
\* while code is generated.
AnalyzeClick ==
    /\ ~isGeneratingCode
    /\ analyzeCall.pc = "idle"
    /\ analyzeCall' = [pc |-> "capturing"]
    /\ UNCHANGED <<pako, fixture, data, decoded, rawInput, parsed, docInput, extracted,
                   elementsInput, analyzed, svgInput, svgXml, editorXml, flowchartXml,
                   analysisHasErrors, selectedLanguage, isGeneratingCode, generateCall,
                   lastAnalysis, lastRequest,
                   classifyVars, editorVars>>

\* handleAnalyzeFlowchart from the capture to the await of the fetch.
AnalyzeCapture ==
    /\ analyzeCall.pc = "capturing"
    /\ \E elements \in {CaptureAndExtract(editorXml)} :
          IF elements.st = "throw"
          THEN /\ analysisHasErrors' = TRUE
               /\ analyzeCall' = Idle
               /\ UNCHANGED flowchartXml
          ELSE /\ handleFlowchartChange(editorXml)
               /\ analyzeCall' = IF elements.v.null THEN Idle
                                 ELSE [pc |-> "fetching", xml |-> editorXml]
    /\ UNCHANGED <<pako, fixture, data, decoded, rawInput, parsed, docInput, extracted,
                   elementsInput, analyzed, svgInput, svgXml, editorXml, selectedLanguage,
                   isGeneratingCode, generateCall, lastAnalysis, lastRequest,
                   classifyVars, editorVars>>

\* handleAnalyzeFlowchart from the reply of the backend to its end.
AnalyzeResponse ==
    /\ analyzeCall.pc = "fetching"
    /\ \E response \in AnalysisResponses :
          IF response.ok
          THEN /\ analysisHasErrors' = (response.severities \cap BlockingSeverities # {})
               /\ lastAnalysis' = [done |-> TRUE, xml |-> analyzeCall.xml,
                                   passed |-> response.severities \cap BlockingSeverities = {}]
          ELSE /\ analysisHasErrors' = TRUE
               /\ UNCHANGED lastAnalysis
    /\ analyzeCall' = Idle
    /\ UNCHANGED <<pako, fixture, data, decoded, rawInput, parsed, docInput, extracted,
                   elementsInput, analyzed, svgInput, svgXml, editorXml, flowchartXml,
                   selectedLanguage, isGeneratingCode, generateCall, lastRequest,
                   classifyVars, editorVars>>

\* handleGenerateCode up to the await of the capture: the button is disabled and the
\* handler returns unless no analysis error is known and a language is selected.
GenerateClick ==
    /\ ~isGeneratingCode
    /\ ~analysisHasErrors
    /\ selectedLanguage # ""
    /\ isGeneratingCode' = TRUE
    /\ generateCall' = [pc |-> "capturing", language |-> selectedLanguage]
    /\ UNCHANGED <<pako, fixture, data, decoded, rawInput, parsed, docInput, extracted,
                   elementsInput, analyzed, svgInput, svgXml, editorXml, flowchartXml,
                   analysisHasErrors, selectedLanguage, analyzeCall, lastAnalysis, lastRequest,
                   classifyVars, editorVars>>

\* handleGenerateCode from the capture to the await of the fetch: the request is sent.
GenerateCapture ==
    /\ generateCall.pc = "capturing"
    /\ \E elements \in {CaptureAndExtract(editorXml)} :
          IF elements.st = "throw"
          THEN /\ isGeneratingCode' = FALSE
               /\ generateCall' = Idle
               /\ UNCHANGED <<flowchartXml, analysisHasErrors, lastRequest>>
          ELSE /\ handleFlowchartChange(editorXml)
               /\ IF elements.v.null
                  THEN /\ isGeneratingCode' = FALSE
                       /\ generateCall' = Idle
                       /\ UNCHANGED lastRequest
                  ELSE /\ lastRequest' = [sent |-> TRUE, xml |-> editorXml,
                                          language |-> generateCall.language,
                                          analysis |-> lastAnalysis]
                       /\ generateCall' = [pc |-> "fetching"]
                       /\ UNCHANGED isGeneratingCode
    /\ UNCHANGED <<pako, fixture, data, decoded, rawInput, parsed, docInput, extracted,
                   elementsInput, analyzed, svgInput, svgXml, editorXml, selectedLanguage,
                   analyzeCall, lastAnalysis,
                   classifyVars, editorVars>>

\* handleGenerateCode from the reply of the backend to its end.
GenerateResponse ==
    /\ generateCall.pc = "fetching"
    /\ isGeneratingCode' = FALSE
    /\ generateCall' = Idle
    /\ UNCHANGED <<pako, fixture, data, decoded, rawInput, parsed, docInput, extracted,
                   elementsInput, analyzed, svgInput, svgXml, editorXml, flowchartXml,
                   analysisHasErrors, selectedLanguage, analyzeCall, lastAnalysis, lastRequest,
                   classifyVars, editorVars>>

NextApp ==
    \/ EditDrawing
    \/ SaveDrawing
    \/ SelectLanguage
    \/ AnalyzeClick
    \/ AnalyzeCapture
    \/ AnalyzeResponse
    \/ GenerateClick
    \/ GenerateCapture
    \/ GenerateResponse

SpecApp == InitApp /\ [][NextApp]_vars

(***************************************************************************)
(* determineNodeType applied to a shape type of detectShapeType, a content *)
(* type of analyzeNodeContent and the two edge flags; analyzeNodeContent   *)
(* applied to a value text                                                 *)
(***************************************************************************)
ShapeTypes == {"oval", "diamond", "parallelogram", "rectangle"}

ContentTypes == {"start", "end", "input", "output", "decision", "process", "unknown"}

\* Value texts: none, blank, without keyword, with a keyword of one group, in
\* capitals, and with keywords of several groups.
ValueTexts ==
    {"", " ", "hello", "Start", "STOP", "Read x", "Show x", "x > 1", "x = x + 1",
     "Begin and end", "Print the input", "if done", "Is it open?", "set output"}

InitClassify ==
    /\ pako = "throws"
    /\ fixture = [text |-> "", form |-> "xml"]
    /\ data = ""
    /\ decoded = Pending
    /\ rawInput = ""
    /\ parsed = NotCalled
    /\ docInput = Null
    /\ extracted = NotCalled
    /\ elementsInput = Null
    /\ analyzed = NotCalled
    /\ svgInput = ""
    /\ svgXml = NoText
    /\ editorXml = ""
    /\ AppConstructed
    /\ EditorNotMounted
    /\ classifyInput \in [shapeType : ShapeTypes, contentType : ContentTypes,
                          hasIncoming : BOOLEAN, hasOutgoing : BOOLEAN]
    /\ nodeType = NoType
    /\ valueInput \in ValueTexts
    /\ contentDetected = NoType

ClassifyCall ==
    /\ nodeType.st = "pending"
    /\ nodeType' = Return(determineNodeType(classifyInput.shapeType, classifyInput.contentType,
                                            classifyInput.hasIncoming,
                                            classifyInput.hasOutgoing))
    /\ UNCHANGED <<pako, fixture, data, decoded, rawInput, parsed, docInput, extracted,
                   elementsInput, analyzed, svgInput, svgXml, appVars, editorVars,
                   classifyInput, valueInput, contentDetected>>

ContentCall ==
    /\ contentDetected.st = "pending"
    /\ contentDetected' = Return(analyzeNodeContent(valueInput))
    /\ UNCHANGED <<pako, fixture, data, decoded, rawInput, parsed, docInput, extracted,
                   elementsInput, analyzed, svgInput, svgXml, appVars, editorVars,
                   classifyInput, valueInput, nodeType>>

NextClassify == ClassifyCall \/ ContentCall

SpecClassify == InitClassify /\ [][NextClassify]_vars

(***************************************************************************)
(* FlowchartEditor: captureCurrentState, its retry timer and handleOnExport *)
(***************************************************************************)
MaxTicks == 2

\* The delay of the retry timer, in milliseconds.
RetryDelay == 200

\* The clock advances by the delay, MaxTicks times and then for as long as a timer
\* is not yet due: a timer is seen before, at and after the time it is due.
ClockEnd == MaxTicks * RetryDelay

\* The handlers of the App that call captureCurrentState, each once.
Callers == {"handleAnalyzeFlowchart", "handleGenerateCode"}

\* The timer due as soon as it is set.
TimerDueAtOnce(called) == called

\* setTimeout(..., 200): the time from which the callback may run.
TimerDue(called) == called + RetryDelay

\* xml && xml.trim().startsWith('<') on the result of getXml, None for undefined.
Usable(xml) == xml.some /\ xml.v # "" /\ startsWith(trim(xml.v), "<")

EditorDrawing == " <mxGraphModel/>"

ExportedDrawing == "<mxGraphModel><root/></mxGraphModel>"

\* What getXml returns: undefined while the editor is not ready, or the drawing.
GetXmlResults == {None, Some(EditorDrawing)}

\* The message of the error getXml throws when it fails.
GetXmlError == "getXml failed"

\* The events the editor answers an exportDiagram request with: no data, XML, an
\* SVG file as a data URI with the drawing in it or without, an SVG file that is
\* no data URI, and an image.
ExportEvents ==
    {[format |-> "xmlsvg", data |-> None],
     [format |-> "xml", data |-> Some(ExportedDrawing)],
     [format |-> "xmlsvg",
      data |-> Some(DataUriPrefix
                    \o btoa(StringToBytes("<svg" \o Attr("content", escapeHtml("<a/>")) \o "/>")))],
     [format |-> "svg", data |-> Some(DataUriPrefix \o btoa(StringToBytes("<svg/>")))],
     [format |-> "svg", data |-> Some("<svg/>")],
     [format |-> "png", data |-> Some("iVBORw0KGgo=")]}

\* A promise: pending, or settled with a value or the message of an error; by names
\* the code that settled it.
Unsettled == [st |-> "pending", v |-> "", by |-> ""]

\* resolve and reject of a promise: without effect once it is settled.
Settle(promise, st, v, by) ==
    IF promise.st = "pending" THEN [st |-> st, v |-> v, by |-> by] ELSE promise

\* What handleOnExport does on an event: the text it passes to _processAndLogXml,
\* if any, and what it settles the capture of the slot with.
Resolving(xml) == [process |-> Some(xml), st |-> "resolved", v |-> xml]

Rejecting(message) == [process |-> None, st |-> "rejected", v |-> message]

ExportEffect(event) ==
    IF ~event.data.some \/ event.data.v = ""
    THEN Rejecting("Export failed, no data received.")
    ELSE IF event.format = "xml" /\ startsWith(trim(event.data.v), "<")
    THEN Resolving(event.data.v)
    ELSE IF event.format \in {"xmlsvg", "svg"}
    THEN IF startsWith(event.data.v, DataUriPrefix)
         THEN Bind(atob(From(event.data.v, Len(DataUriPrefix) + 1)), LAMBDA svg :
                IF svg.st # "ok" THEN Rejecting("InvalidCharacterError")
                ELSE Bind(extractXmlFromSvg(BytesToString(svg.v)), LAMBDA embedded :
                       IF embedded.st = "return" /\ embedded.v.some /\ embedded.v.v # ""
                       THEN Resolving(embedded.v.v)
                       ELSE Rejecting("No XML inside SVG")))
         ELSE Rejecting("SVG data URI expected")
    ELSE Rejecting("Unsupported export format or invalid XML received: " \o event.format)

\* _processAndLogXml: setCurrentXml and onSave, which is handleFlowchartChange of
\* the App; the parsing that follows changes no state.
processAndLogXml(xml) ==
    /\ currentXml' = xml
    /\ handleFlowchartChange(xml)

NotProcessed == UNCHANGED <<currentXml, flowchartXml, analysisHasErrors>>

\* What the editor component leaves alone.
captureFrame == <<pako, fixture, data, decoded, rawInput, parsed, docInput, extracted,
                  elementsInput, analyzed, svgInput, svgXml, editorXml, selectedLanguage,
                  isGeneratingCode, analyzeCall, generateCall, lastAnalysis, lastRequest,
                  classifyVars>>

NotCalledYet == [called |-> FALSE]

\* A call of captureCurrentState: its promise, the time of the call, whether a
\* capture was unsettled at the call (history), whether the call got past the two
\* checks, the readings of getXml with their times, and its timer.
Capture(promise, accepted, reads, timer) ==
    [called |-> TRUE, promise |-> promise, at |-> now, accepted |-> accepted,
     busy |-> \E c \in Callers : captures[c].called /\ captures[c].promise.st = "pending",
     reads |-> reads, timer |-> timer, due |-> TimerDue(now)]

Read(xml) == [at |-> now, xml |-> xml]

\* The component is mounted, with an editor behind the ref or none.
InitCapture ==
    /\ pako = "throws"
    /\ fixture = [text |-> "", form |-> "xml"]
    /\ data = ""
    /\ decoded = Pending
    /\ rawInput = ""
    /\ parsed = NotCalled
    /\ docInput = Null
    /\ extracted = NotCalled
    /\ elementsInput = Null
    /\ analyzed = NotCalled
    /\ svgInput = ""
    /\ svgXml = NoText
    /\ editorXml = ""
    /\ AppConstructed
    /\ ClassifyNotCalled
    /\ now = 0
    /\ drawio \in [ref : BOOLEAN, getXml : BOOLEAN, exportDiagram : BOOLEAN]
    /\ ~drawio.ref => (~drawio.getXml /\ ~drawio.exportDiagram)
    /\ currentXml = ""
    /\ capturePromiseResolver = None
    /\ captures = [c \in Callers |-> NotCalledYet]
    /\ exportRequests = 0

\* captureCurrentState called by the handler c.
CaptureCall(c) ==
    /\ ~captures[c].called
    /\ IF capturePromiseResolver.some
       THEN /\ captures' = [captures EXCEPT ![c] =
                  Capture(Settle(Unsettled, "rejected", "A capture is already in progress.", "call"),
                          FALSE, <<>>, "none")]
            /\ NotProcessed
            /\ UNCHANGED <<capturePromiseResolver, exportRequests>>
       ELSE IF ~drawio.ref
       THEN /\ captures' = [captures EXCEPT ![c] =
                  Capture(Settle(Unsettled, "rejected", "DrawIo ref not available", "call"),
                          FALSE, <<>>, "none")]
            /\ NotProcessed
            /\ UNCHANGED <<capturePromiseResolver, exportRequests>>
       ELSE \/ /\ drawio.getXml
               /\ \E xml \in GetXmlResults :
                     /\ Usable(xml)
                     /\ processAndLogXml(xml.v)
                     /\ captures' = [captures EXCEPT ![c] =
                           Capture(Settle(Unsettled, "resolved", xml.v, "read"),
                                   TRUE, <<Read(xml)>>, "none")]
               /\ UNCHANGED <<capturePromiseResolver, exportRequests>>
            \/ /\ drawio.getXml
               /\ captures' = [captures EXCEPT ![c] =
                     Capture(Settle(Unsettled, "rejected", GetXmlError, "catch"),
                             TRUE, <<Read(None)>>, "none")]
               /\ NotProcessed
               /\ UNCHANGED <<capturePromiseResolver, exportRequests>>
            \/ /\ \E reads \in (IF drawio.getXml
                                THEN {<<Read(xml)>> : xml \in {x \in GetXmlResults : ~Usable(x)}}
                                ELSE {<<>>}) :
                     captures' = [captures EXCEPT ![c] = Capture(Unsettled, TRUE, reads, "armed")]
               /\ IF drawio.exportDiagram
                  THEN /\ capturePromiseResolver' = Some(c)
                       /\ exportRequests' = exportRequests + 1
                  ELSE UNCHANGED <<capturePromiseResolver, exportRequests>>
               /\ NotProcessed
    /\ UNCHANGED <<now, drawio>>
    /\ UNCHANGED captureFrame

\* The callback of the retry timer of the call of c.
RetryFire(c) ==
    /\ captures[c].called
    /\ captures[c].timer = "armed"
    /\ now >= captures[c].due
    /\ IF drawio.getXml
       THEN \/ \E retryXml \in GetXmlResults :
                  IF Usable(retryXml)
                  THEN /\ processAndLogXml(retryXml.v)
                       /\ captures' = [captures EXCEPT
                             ![c].promise = Settle(@, "resolved", retryXml.v, "retry"),
                             ![c].reads = Append(@, Read(retryXml)),
                             ![c].timer = "fired"]
                  ELSE /\ NotProcessed
                       /\ captures' = [captures EXCEPT
                             ![c].promise = Settle(@, "rejected",
                                 "Could not retrieve XML from editor (getXml returned empty).",
                                 "retry"),
                             ![c].reads = Append(@, Read(retryXml)),
                             ![c].timer = "fired"]
            \/ /\ NotProcessed
               /\ captures' = [captures EXCEPT
                     ![c].promise = Settle(@, "rejected", GetXmlError, "retry"),
                     ![c].reads = Append(@, Read(None)),
                     ![c].timer = "fired"]
       ELSE /\ NotProcessed
            /\ captures' = [captures EXCEPT
                  ![c].promise = Settle(@, "rejected", "inst.getXml is not a function", "retry"),
                  ![c].timer = "fired"]
    /\ UNCHANGED <<now, drawio, capturePromiseResolver, exportRequests>>
    /\ UNCHANGED captureFrame

\* handleOnExport on the event that answers an exportDiagram request.
ExportEvent ==
    /\ exportRequests > 0
    /\ \E event \in ExportEvents :
          \E effect \in {ExportEffect(event)} :
             /\ IF effect.process.some THEN processAndLogXml(effect.process.v) ELSE NotProcessed
             /\ IF capturePromiseResolver.some
                THEN /\ captures' = [captures EXCEPT
                           ![capturePromiseResolver.v].promise =
                               Settle(@, effect.st, effect.v, "export")]
                     /\ capturePromiseResolver' = None
                ELSE UNCHANGED <<captures, capturePromiseResolver>>
    /\ exportRequests' = exportRequests - 1
    /\ UNCHANGED <<now, drawio>>
    /\ UNCHANGED captureFrame

\* Time passes.
Tick ==
    /\ \/ now < ClockEnd
       \/ \E c \in Callers :
             captures[c].called /\ captures[c].timer = "armed" /\ now < captures[c].due
    /\ now' = now + RetryDelay
    /\ UNCHANGED <<drawio, currentXml, capturePromiseResolver, captures, exportRequests,
                   flowchartXml, analysisHasErrors>>
    /\ UNCHANGED captureFrame

NextCapture ==
    \/ \E c \in Callers : CaptureCall(c)
    \/ \E c \in Callers : RetryFire(c)
    \/ ExportEvent
    \/ Tick

SpecCapture == InitCapture /\ [][NextCapture]_vars

\* The clock goes on, and the event loop runs the callback of a timer that is due.
SpecCaptureFair ==
    /\ SpecCapture
    /\ WF_vars(Tick)
    /\ \A c \in Callers : WF_vars(RetryFire(c))

(***************************************************************************)
(* Properties of decodeDiagramContent                                      *)
(***************************************************************************)
Accepted(t) == startsWith(trim(t), "<")

\* The text of base64 -> inflateRaw -> URI decode, when no step fails.
Inflated(d) ==
    LET bytes == atob(d)
        inflated == inflateRaw(bytes.v)
        xml == decodeURIComponent(inflated.v)
    IN IF bytes.st = "ok" /\ inflated.st = "ok" /\ xml.st = "ok"
       THEN <<xml.v>> ELSE <<>>

\* The outputs of the four strategies on d, in their order; <<>> for a
\* strategy that raised an error.
StrategyOutputs(d) ==
    LET uri == decodeURIComponent(d)
    IN << <<d>>,
          Inflated(d),
          IF uri.st = "ok" THEN Inflated(uri.v) ELSE <<>>,
          <<decodeHtml(d)>> >>

FirstAccepted(d) ==
    LET out == StrategyOutputs(d)
        S == {k \in 1..4 : out[k] # <<>> /\ Accepted(out[k][1])}
    IN IF S = {} THEN "" ELSE out[Min(S)][1]

\* C1: decode never throws and returns the output of the first strategy, in
\* the order pass-through, base64+inflate+URI, URI then base64+inflate+URI,
\* entity decoding, whose output starts with "<" after trimming (a strategy
\* that raises an error counts as failed); the empty string when there is none.
C1_FirstAcceptedStrategy ==
    decoded.st # "pending" => decoded = Return(FirstAccepted(data))

\* A call in which the first binary strategy raised an error, the second one
\* succeeded and its output was returned.
C1_Witness ==
    /\ decoded.st = "return"
    /\ decoded.v # ""
    /\ ~Accepted(data)
    /\ InflateBase64(data).st = "throw"
    /\ InflateUriBase64(data).st = "return"

NoEntityLeft(t) ==
    \A e \in {"&lt;", "&gt;", "&quot;", "&#39;", "&nbsp;"} : ~includes(t, e)

\* C7 as stated: decoding an entity-escaped XML string leaves no occurrence
\* of &lt; &gt; &quot; &#39; &nbsp; in the result.
C7_NoEntityLeft ==
    (decoded.st = "return" /\ fixture.form = "escaped" /\ fixture.text \in XmlTexts)
        => NoEntityLeft(decoded.v)

\* C7 amended: decoding an entity-escaped XML string gives back the XML
\* string, so the result holds one of the five entities only where the XML
\* string itself holds that entity reference.
C7_EntityOnlyFromDocument ==
    (decoded.st = "return" /\ fixture.form = "escaped" /\ fixture.text \in XmlTexts)
        => /\ decoded.v = fixture.text
           /\ NoEntityLeft(fixture.text) => NoEntityLeft(decoded.v)

\* An escaped document with markup and an apostrophe was decoded by the
\* entity strategy.
C7_Witness ==
    /\ decoded.st = "return"
    /\ fixture.form = "escaped"
    /\ fixture.text \in XmlTexts
    /\ includes(data, "&lt;") /\ includes(data, "&gt;") /\ includes(data, "&#39;")
    /\ NoEntityLeft(fixture.text)
    /\ decoded.v = decodeHtml(data)

\* C8: decode(base64(rawDeflate(percentEncode(x)))) = x for an XML document
\* x, and the same for that payload percent-encoded once more.
C8_CompressionRoundTrip ==
    (decoded.st # "pending" /\ fixture.form \in {"deflated", "uriDeflated"}
        /\ fixture.text \in XmlTexts)
        => decoded = Return(fixture.text)

\* A percent-encoded wrapper that differs from its payload was decoded back
\* to a document holding characters that the percent-encoding escapes.
C8_Witness ==
    /\ decoded.st = "return"
    /\ fixture.form = "uriDeflated"
    /\ data # compress(fixture.text)
    /\ includes(fixture.text, "%")
    /\ decoded.v = fixture.text

(***************************************************************************)
(* Properties of parseDrawioXml                                            *)
(***************************************************************************)
ParseCandidates(t) == <<t, decodeHtml(t), decodeDiagramContent(t).v>>

WellFormed(t) == ~HasParserError(parseFromString(t))

\* C6: parse never throws and returns the document of the first of the
\* candidates raw input, entity-decoded input, decoder output that parses
\* without a parser error; null when there is none, which covers the empty
\* and the whitespace-only input.
C6_FirstWellFormedCandidate ==
    parsed.st # "pending" =>
        /\ parsed.st = "return"
        /\ LET c == ParseCandidates(rawInput)
               W == {k \in 1..3 : WellFormed(c[k])}
           IN IF W = {} THEN parsed.v = Null
              ELSE parsed.v = parseFromString(c[Min(W)])

\* A call that returned the document of the third candidate, the first two
\* having failed to parse.
C6_Witness ==
    /\ parsed.st = "return"
    /\ ~parsed.v.null
    /\ ~WellFormed(rawInput)
    /\ ~WellFormed(decodeHtml(rawInput))

(***************************************************************************)
(* Properties of extractFlowchartElements                                  *)
(***************************************************************************)
HasRoot(doc) == ~doc.null /\ doc.documentElement.some

IsContainer(doc) == HasRoot(doc) /\ doc.documentElement.v.tag = "mxfile"

Pages(doc) == docElementsByTagName(doc, "diagram")

\* The text of the first page of a container.
PageText(doc) == textContent(Pages(doc)[1])

\* The document the text of the first page decodes to.
DecodedPage(doc) == parseFromString(decodeDiagramContent(PageText(doc)).v)

\* The first page of the container has a text that decodes to the empty
\* string or to a text that does not parse.
PageUnusable(doc) ==
    /\ IsContainer(doc)
    /\ Pages(doc) # <<>>
    /\ PageText(doc) # ""
    /\ \/ decodeDiagramContent(PageText(doc)).v = ""
       \/ HasParserError(DecodedPage(doc))

\* C4 as stated: extract returns null exactly for the null document and the
\* document without a root element.
C4_NullOnlyWithoutRoot ==
    extracted.st # "pending" => (extracted.v.null <=> ~HasRoot(docInput))

\* C4 as amended: extract returns null exactly for the null document, the
\* document without a root element, and the container whose first page has
\* a text that does not decode to a well-formed document.
C4_NullOnlyWithoutRootOrPage ==
    extracted.st # "pending" =>
        /\ extracted.st = "return"
        /\ extracted.v.null <=> (~HasRoot(docInput) \/ PageUnusable(docInput))

\* A diagram without cells for which extract returned a result with empty
\* collections.
C4_Witness ==
    /\ extracted.st = "return"
    /\ HasRoot(docInput)
    /\ docInput.documentElement.v.tag = "mxGraphModel"
    /\ docElementsByTagName(docInput, "mxCell") = <<>>
    /\ extracted.v = Elements(<<>>, <<>>)

\* C5 as stated: for a container, null when there is no page or the text
\* of the first page decodes to the empty string; otherwise the extraction
\* goes on with the document the page decodes to.
C5_NullWithoutPage ==
    (extracted.st # "pending" /\ IsContainer(docInput)) =>
        IF Pages(docInput) = <<>>
           \/ decodeDiagramContent(PageText(docInput)).v = ""
        THEN extracted.v.null
        ELSE extracted.v \in {Null, ExtractFrom(DecodedPage(docInput))}

\* C5 as amended: for a container without a page, or whose first page has
\* no text, the extraction goes on with the container document itself; with
\* a text that decodes to the empty string or does not parse it returns
\* null; otherwise it goes on with the document the page decodes to.
C5_PageOrContainer ==
    (extracted.st # "pending" /\ IsContainer(docInput)) =>
        IF Pages(docInput) = <<>> \/ PageText(docInput) = ""
        THEN extracted.v = ExtractFrom(docInput)
        ELSE IF PageUnusable(docInput) THEN extracted.v = Null
        ELSE extracted.v = ExtractFrom(DecodedPage(docInput))

\* A container without a page element whose extraction went on and found
\* the nodes of a diagram.
C5_Witness ==
    /\ extracted.st = "return"
    /\ IsContainer(docInput)
    /\ Pages(docInput) = <<>>
    /\ ~extracted.v.null
    /\ extracted.v.nodes # <<>>

(***************************************************************************)
(* Properties of analyzeFlowchart                                          *)
(***************************************************************************)
Buckets(result) ==
    <<result.startNodes, result.endNodes, result.decisionNodes, result.processNodes,
      result.ioNodes>>

\* The number of buckets that hold the node.
BucketsHolding(result, node) ==
    Cardinality({b \in 1..5 : \E k \in 1..Len(Buckets(result)[b]) : Buckets(result)[b][k] = node})

\* C10: in every analysis returned each input node is in exactly one of the
\* five buckets, input and output nodes in the io bucket, the sizes of the
\* buckets sum to the number of nodes, the connections are the edges of the
\* input and totalElements is the number of nodes plus the number of edges.
C10_BucketsPartitionNodes ==
    (analyzed.st = "return" /\ ~analyzed.v.null) =>
        /\ \A i \in 1..Len(elementsInput.nodes) : BucketsHolding(analyzed.v, elementsInput.nodes[i]) = 1
        /\ \A i \in 1..Len(elementsInput.nodes) :
              (elementsInput.nodes[i].type \in {Some("input"), Some("output")})
                  => \E k \in 1..Len(analyzed.v.ioNodes) :
                        analyzed.v.ioNodes[k] = elementsInput.nodes[i]
        /\ Len(analyzed.v.startNodes) + Len(analyzed.v.endNodes)
              + Len(analyzed.v.decisionNodes) + Len(analyzed.v.processNodes)
              + Len(analyzed.v.ioNodes) = Len(elementsInput.nodes)
        /\ analyzed.v.connections = elementsInput.edges
        /\ analyzed.v.totalElements = Len(elementsInput.nodes) + Len(elementsInput.edges)

\* An analysis of an input node and a node of another type than the six,
\* with an edge.
C10_Witness ==
    /\ analyzed.st = "return"
    /\ ~analyzed.v.null
    /\ \E k \in 1..Len(analyzed.v.ioNodes) : analyzed.v.ioNodes[k].type = Some("input")
    /\ \E k \in 1..Len(analyzed.v.processNodes) :
          analyzed.v.processNodes[k].type = Some("unknown")
    /\ analyzed.v.connections # <<>>

\* C2: no stage throws: the decoder, the parser, the extraction and the
\* analysis each return, whatever the input, nodes without a type and edges
\* with dangling or missing ends included.
C2_NoStageThrows ==
    /\ decoded.st # "throw"
    /\ parsed.st # "throw"
    /\ extracted.st # "throw"
    /\ analyzed.st # "throw"

\* The directed graph of the edges that have both ends, as a set of pairs.
Arrows(input) ==
    IF input.null THEN {}
    ELSE {<<input.edges[k].sourceId.v, input.edges[k].targetId.v>> :
             k \in {j \in 1..Len(input.edges) :
                      Truthy(input.edges[j].sourceId) /\ Truthy(input.edges[j].targetId)}}

\* The ids reached from the ids of S along the arrows of A, S included.
RECURSIVE ReachedFrom(_, _)
ReachedFrom(A, S) ==
    IF \A a \in A : a[1] \in S => a[2] \in S THEN S
    ELSE ReachedFrom(A, S \cup {a[2] : a \in {b \in A : b[1] \in S}})

\* The ids that lie on a cycle of A.
OnCycle(A) == {a[1] : a \in {b \in A : b[1] \in ReachedFrom(A, {b[2]})}}

CycleReachable(input) ==
    /\ ~input.null
    /\ ReachedFrom(Arrows(input), {input.nodes[i].id : i \in 1..Len(input.nodes)})
           \cap OnCycle(Arrows(input)) # {}

\* The number of loop issues of the outcome; none when there is no analysis.
LoopIssues(outcome) ==
    IF outcome.st = "return" /\ ~outcome.v.null
    THEN Cardinality({k \in 1..Len(outcome.v.issues) : outcome.v.issues[k] = LoopIssue})
    ELSE 0

\* C3: the analysis emits exactly one loop issue when the graph of the edges
\* with both ends has a cycle reachable from a node of the input, none when
\* that graph has no cycle, and never more than one.
C3_OneLoopIssue ==
    analyzed.st # "pending" =>
        /\ CycleReachable(elementsInput) => LoopIssues(analyzed) = 1
        /\ OnCycle(Arrows(elementsInput)) = {} => LoopIssues(analyzed) = 0
        /\ LoopIssues(analyzed) <= 1

\* Every analysis that is returned holds one loop issue when a cycle is
\* reachable from a node of the input and none otherwise.
LoopIssueOfReturned ==
    (analyzed.st = "return" /\ ~analyzed.v.null) =>
        LoopIssues(analyzed) = (IF CycleReachable(elementsInput) THEN 1 ELSE 0)

\* C9: the analysis returns null exactly when its input is null or has no
\* node, and returns an analysis for every input with a node.
C9_NullIffNoNodes ==
    analyzed.st # "pending" =>
        /\ analyzed.st = "return"
        /\ analyzed.v.null <=> (elementsInput.null \/ elementsInput.nodes = <<>>)

\* Every outcome other than an analysis or null is an exception, and null
\* is returned exactly for the null input and the inputs without a node.
NullOfReturned ==
    analyzed.st = "return" =>
        (analyzed.v.null <=> (elementsInput.null \/ elementsInput.nodes = <<>>))

(***************************************************************************)
(* Properties of the issue list of analyzeFlowchart                        *)
(***************************************************************************)
\* An input for which an analysis is due: it has a node.
HasNodes(input) == ~input.null /\ input.nodes # <<>>

Returned(outcome) == outcome.st = "return" /\ ~outcome.v.null

\* The issues the call gave its caller; none when it gave no analysis.
IssuesOf(outcome) == IF Returned(outcome) THEN outcome.v.issues ELSE <<>>

TypedNodes(input, types) ==
    SelectSeq(input.nodes, LAMBDA node : node.type \in {Some(t) : t \in types})

\* The number of edges whose source is the node of this id.
Outgoing(input, id) ==
    Cardinality({k \in 1..Len(input.edges) : input.edges[k].sourceId = Some(id)})

\* The value of a node, or its id when it has no value.
NameOf(node) == IF node.value.some /\ node.value.v # "" THEN node.value.v
                ELSE "(ID: " \o node.id \o ")"

IsStartIssue(issue) == startsWith(issue, "Flowchart must have exactly one start node")

IsEndIssue(issue) == startsWith(issue, "Flowchart must have at least one end node")

IsDecisionIssue(issue) == includes(issue, "should have at least two outgoing branches")

IsDeadEndIssue(issue) == includes(issue, "is a dead end")

IsDisconnectedIssue(issue) == includes(issue, "is disconnected")

\* The terminal check on the issues of an input.
TerminalCheck(input, issues) ==
    /\ SelectSeq(issues, IsStartIssue)
         = Bind(Len(TypedNodes(input, {"start"})), LAMBDA n :
             IF n = 0
             THEN <<"Flowchart must have exactly one start node, but none were found.">>
             ELSE IF n > 1
             THEN <<"Flowchart must have exactly one start node, but " \o ToString(n)
                    \o " were found.">>
             ELSE <<>>)
    /\ Len(SelectSeq(issues, IsEndIssue))
         = (IF TypedNodes(input, {"end"}) = <<>> THEN 1 ELSE 0)

\* C11: for an input with nodes the issue list holds exactly one start-node
\* issue when no node or more than one node has the type start (naming the
\* count), none when exactly one has; exactly one end-node issue when no
\* node has the type end, none otherwise.
C11_TerminalIssues ==
    (analyzed.st # "pending" /\ HasNodes(elementsInput)) =>
        TerminalCheck(elementsInput, IssuesOf(analyzed))

\* The terminal check holds of every analysis returned.
TerminalIssuesOfReturned ==
    Returned(analyzed) => TerminalCheck(elementsInput, analyzed.v.issues)

\* The decision issues are those of the decision nodes with fewer than two
\* outgoing edges, one each, naming the node and the number of its edges.
DecisionCheck(input, issues) ==
    SelectSeq(issues, IsDecisionIssue)
      = Bind(SelectSeq(TypedNodes(input, {"decision"}),
                       LAMBDA node : Outgoing(input, node.id) < 2),
             LAMBDA few :
               [k \in 1..Len(few) |->
                   "Decision node \"" \o NameOf(few[k])
                   \o "\" should have at least two outgoing branches, but has "
                   \o ToString(Outgoing(input, few[k].id)) \o "."])

\* C12: for an input with nodes the issue list holds, for every decision
\* node with fewer than two outgoing edges, exactly one branch issue naming
\* the node and its number of outgoing edges, and no other branch issue.
C12_DecisionIssues ==
    (analyzed.st # "pending" /\ HasNodes(elementsInput)) =>
        DecisionCheck(elementsInput, IssuesOf(analyzed))

\* The decision check holds of every analysis returned.
DecisionIssuesOfReturned ==
    Returned(analyzed) => DecisionCheck(elementsInput, analyzed.v.issues)

\* The nodes that are no terminals: those of the process, io and decision
\* buckets.
NonTerminals(input) ==
    SelectSeq(input.nodes, LAMBDA node : node.type \notin {Some("start"), Some("end")})

\* The dead-end issues are one for each node that is no terminal and has no
\* outgoing edge, naming it.
DeadEndCheck(input, issues) ==
    Bind(SelectSeq(NonTerminals(input), LAMBDA node : Outgoing(input, node.id) = 0),
         LAMBDA dead :
           Bind(SelectSeq(issues, IsDeadEndIssue), LAMBDA found :
             /\ Len(found) = Len(dead)
             /\ \A k \in 1..Len(dead) :
                   \E j \in 1..Len(found) :
                      includes(found[j], " node \"" \o NameOf(dead[k]) \o "\" is a dead end.")))

\* C13: for an input with nodes every process, io or decision node without
\* an outgoing edge gives exactly one dead-end issue, and no start or end
\* node gives one.
C13_DeadEndIssues ==
    (analyzed.st # "pending" /\ HasNodes(elementsInput)) =>
        DeadEndCheck(elementsInput, IssuesOf(analyzed))

\* The dead-end check holds of every analysis returned.
DeadEndIssuesOfReturned ==
    Returned(analyzed) => DeadEndCheck(elementsInput, analyzed.v.issues)

\* The ids that are the source or the target of an edge.
EdgeEndIds(input) ==
    {e.v : e \in {x \in {input.edges[k].sourceId : k \in 1..Len(input.edges)}
                         \cup {input.edges[k].targetId : k \in 1..Len(input.edges)} :
                     x.some}}

\* The disconnected issues are one for each node whose id is at no end of
\* an edge, naming it, when there is more than one node, and none otherwise.
ConnectivityCheck(input, issues) ==
    SelectSeq(issues, IsDisconnectedIssue)
      = IF Len(input.nodes) > 1
        THEN Bind(SelectSeq(input.nodes, LAMBDA node : node.id \notin EdgeEndIds(input)),
                  LAMBDA alone :
                    [k \in 1..Len(alone) |-> "Node \"" \o NameOf(alone[k]) \o "\" is disconnected."])
        ELSE <<>>

\* C14: for an input with more than one node every node whose id is neither
\* the source nor the target of an edge gives exactly one disconnected issue
\* naming its value or id, and no other node does; an input with one node
\* gives none.
C14_DisconnectedIssues ==
    (analyzed.st # "pending" /\ HasNodes(elementsInput)) =>
        ConnectivityCheck(elementsInput, IssuesOf(analyzed))

\* The connectivity check holds of every analysis returned.
DisconnectedIssuesOfReturned ==
    Returned(analyzed) => ConnectivityCheck(elementsInput, analyzed.v.issues)

(***************************************************************************)
(* Properties of extractXmlFromSvg                                         *)
(***************************************************************************)
\* The content attribute of the root of an SVG file; None when the file has
\* no svg root or the root has no such attribute.
SvgContent(file) ==
    Bind(parseFromString(file).documentElement.v, LAMBDA rootSvg :
      IF toLowerCase(rootSvg.tag) = "svg" THEN getAttribute(rootSvg, "content") ELSE None)

ValidXml(text) == ~HasParserError(parseFromString(text))

\* C15 as stated: the function returns null when the root has no content
\* attribute and when the value is neither valid XML nor decodable as
\* base64 + inflate + percent-decode, and returns a text only when one of
\* the two attempts succeeded.
C15_NullUnlessDecoded ==
    svgXml.st = "return" =>
        Bind(SvgContent(svgInput), LAMBDA content :
          /\ ~content.some => svgXml.v = None
          /\ (content.some /\ ~ValidXml(content.v)
                /\ InflateZlibBase64(content.v).st = "throws") => svgXml.v = None
          /\ svgXml.v.some =>
                /\ content.some
                /\ ValidXml(content.v) \/ InflateZlibBase64(content.v).st = "ok")

\* C15, amended: the function returns null when the root has no content
\* attribute or an empty one; when the value is neither valid XML nor
\* decodable it returns the value itself; it returns a text other than the
\* value only when the value is no valid XML and the decoding succeeded.
C15_ContentUnlessDecoded ==
    svgXml.st = "return" =>
        Bind(SvgContent(svgInput), LAMBDA content :
          /\ (~content.some \/ content = Some("")) <=> svgXml.v = None
          /\ (content.some /\ content.v # "" /\ ~ValidXml(content.v)
                /\ InflateZlibBase64(content.v).st = "throws") => svgXml.v = content
          /\ (svgXml.v.some /\ svgXml.v # content) =>
                /\ ~ValidXml(content.v)
                /\ InflateZlibBase64(content.v).st = "ok")

\* A value that is neither valid XML nor decodable was returned as it is.
C15_Witness ==
    /\ svgXml.st = "return"
    /\ SvgContent(svgInput).some
    /\ ~ValidXml(SvgContent(svgInput).v)
    /\ InflateZlibBase64(SvgContent(svgInput).v).st = "throws"
    /\ svgXml.v = SvgContent(svgInput)

\* The cells of a document, or of the document a text parses to.
CellsOf(doc) == IF doc.null THEN <<>> ELSE docElementsByTagName(doc, "mxCell")

\* The files whose attribute holds a diagram file whose page is the
\* compressed encoding of a document with cells.
HoldsWrappedPage(f) ==
    /\ f.shape \in {"svg", "SVG"}
    /\ f.form \in {"wrapRaw", "wrapZlib", "zlibWrapRaw", "zlibWrapZlib"}
    /\ CellsOf(parseFromString(f.text)) # <<>>

\* C16: for an SVG file whose content attribute holds a diagram file whose
\* page is the compressed encoding of a document D, extractXmlFromSvg
\* followed by parseDrawioXml yields a document that holds the cells of D.
C16_SvgPageUnwrapped ==
    (HoldsWrappedPage(fixture) /\ svgXml.st = "return") =>
        /\ svgXml.v.some
        /\ parsed.st = "return" =>
              CellsOf(parsed.v) = CellsOf(parseFromString(fixture.text))

(***************************************************************************)
(* Properties of the App component                                         *)
(***************************************************************************)
\* C17: a code-generation request is sent only when a language is selected and the
\* flowchart being sent has passed analysis: the most recent completed analysis was
\* run on the flowchart as it stands and returned no error, system_error or warning.
C17_GenerateOnlyAnalysed ==
    lastRequest.sent =>
        /\ lastRequest.language # ""
        /\ lastRequest.analysis.done
        /\ lastRequest.analysis.xml = lastRequest.xml
        /\ lastRequest.analysis.passed

\* What the guard does ensure: every request names a language, and is sent after
\* some analysis has completed.
GenerateRequestGuarded ==
    lastRequest.sent => lastRequest.language \in Languages /\ lastRequest.analysis.done

\* A request is sent for the drawing that passed the most recent analysis.
C17_Witness ==
    /\ lastRequest.sent
    /\ lastRequest.analysis.done
    /\ lastRequest.analysis.xml = lastRequest.xml
    /\ lastRequest.analysis.passed

(***************************************************************************)
(* Properties of the geometry and of the classification of the extraction  *)
(***************************************************************************)
\* The nodes of the extraction; none when it gave no elements.
NodesOf(outcome) == IF Returned(outcome) THEN outcome.v.nodes ELSE <<>>

GeometryOf(x, y, width, height) ==
    Some([x |-> Number(FALSE, x, ""), y |-> Number(FALSE, y, ""),
          width |-> Number(FALSE, width, ""), height |-> Number(FALSE, height, "")])

\* The geometry the cells of the diagrams are written with.
WrittenGeometry(text, id) ==
    CASE text = TwoNodeDiagram /\ id = "2" -> GeometryOf(10, 20, 80, 40)
      [] text = GeometryDiagram /\ id = "2" -> GeometryOf(5, 0, 7, 0)
      [] text = GeometryDiagram /\ id = "3" -> GeometryOf(0, 0, 0, 0)
      [] OTHER -> None

\* C18: the node of a vertex cell with a geometry element has the x, y, width and
\* height of the element, 0 for each field the element lacks; the node of a vertex
\* cell without geometry element has no geometry.
C18_GeometryOfCell ==
    \A k \in DOMAIN NodesOf(extracted) :
       NodesOf(extracted)[k].geometry
         = WrittenGeometry(fixture.text, NodesOf(extracted)[k].id)

\* The three vertices of the geometry diagram are extracted: defaults for the
\* missing fields, and no geometry for the cell without the element.
C18_Witness ==
    /\ fixture.text = GeometryDiagram
    /\ Len(NodesOf(extracted)) = 3
    /\ NodesOf(extracted)[1].geometry = GeometryOf(5, 0, 7, 0)
    /\ NodesOf(extracted)[2].geometry = GeometryOf(0, 0, 0, 0)
    /\ NodesOf(extracted)[3].geometry = None

\* The edges with both ends present.
CompleteEdges(edges) == SelectSeq(edges, LAMBDA e : e.sourceId.some /\ e.targetId.some)

\* The type of a node by its style, its value and the complete edges at its id.
TypeFromEdges(node, edges) ==
    Some(determineNodeType(detectShapeType(OrEmpty(node.style)),
                           analyzeNodeContent(OrEmpty(node.value)),
                           \E k \in DOMAIN CompleteEdges(edges) :
                              CompleteEdges(edges)[k].targetId.v = node.id,
                           \E k \in DOMAIN CompleteEdges(edges) :
                              CompleteEdges(edges)[k].sourceId.v = node.id))

TypesFromEdges(elements) ==
    \A k \in DOMAIN elements.nodes :
       elements.nodes[k].type = TypeFromEdges(elements.nodes[k], elements.edges)

\* C19: the type of every node is the one its style, its value and the edges of the
\* document with both ends present give, whatever the order of the cells: an edge
\* cell that precedes its vertex cells counts as one that follows them.
C19_TypeFromEveryEdge ==
    Returned(extracted) => TypesFromEdges(extracted.v)

\* The types are those of all complete edges when no edge cell precedes a vertex cell.
TypeOfOrderedDocuments ==
    (Returned(extracted) /\ fixture.text # OvalDiagramEdgesFirst) => TypesFromEdges(extracted.v)

\* The edge without source is kept in the edge collection of the extraction.
SourcelessEdgeKept ==
    (Returned(extracted) /\ extracted.v.nodes # <<>>
        /\ fixture.text \in {OvalDiagram, OvalDiagramEdgesFirst})
    => \E k \in DOMAIN extracted.v.edges :
          extracted.v.edges[k].id = "5" /\ ~extracted.v.edges[k].sourceId.some

\* The input of the analysis without the edges that lack an end.
CompleteInput(input) == [input EXCEPT !.edges = CompleteEdges(@)]

\* C20: an edge with a missing source or target contributes to no outgoing count of
\* the analysis: the branch issues and the dead-end issues are those of the input
\* without such edges.
C20_DanglingEdgesUncounted ==
    Returned(analyzed) =>
        /\ DecisionCheck(CompleteInput(elementsInput), analyzed.v.issues)
        /\ DeadEndCheck(CompleteInput(elementsInput), analyzed.v.issues)

(***************************************************************************)
(* Properties of determineNodeType and analyzeNodeContent                  *)
(***************************************************************************)
\* The type returned for a shape.
TypeOfShape(shape) == nodeType.st = "return" /\ classifyInput.shapeType = shape

\* C21: an oval is a start without incoming and with an outgoing edge, an end with
\* an incoming and without outgoing edge, whatever its content type; otherwise it
\* has its content type when that is start or end, and else is an end when it has
\* an incoming edge and a start when it has none.
C21_OvalType ==
    TypeOfShape("oval") =>
        nodeType.v
          = CASE ~classifyInput.hasIncoming /\ classifyInput.hasOutgoing -> "start"
              [] classifyInput.hasIncoming /\ ~classifyInput.hasOutgoing -> "end"
              [] OTHER -> IF classifyInput.contentType \in {"start", "end"}
                          THEN classifyInput.contentType
                          ELSE IF classifyInput.hasIncoming THEN "end" ELSE "start"

\* An oval whose text says end is a start by its edges.
C21_Witness ==
    /\ TypeOfShape("oval")
    /\ classifyInput.contentType = "end"
    /\ ~classifyInput.hasIncoming
    /\ classifyInput.hasOutgoing
    /\ nodeType.v = "start"

\* C22: a rectangle is a start only with the content type start and no incoming
\* edge, an end only with the content type end and no outgoing edge; otherwise it
\* is a decision, input or output when that is its content type, and else a process.
C22_RectangleType ==
    TypeOfShape("rectangle") =>
        /\ nodeType.v = "start"
             <=> (classifyInput.contentType = "start" /\ ~classifyInput.hasIncoming)
        /\ nodeType.v = "end"
             <=> (classifyInput.contentType = "end" /\ ~classifyInput.hasOutgoing)
        /\ nodeType.v \notin {"start", "end"} =>
             nodeType.v = IF classifyInput.contentType \in {"decision", "input", "output"}
                          THEN classifyInput.contentType
                          ELSE "process"

\* A rectangle whose text says start is a process as it has an incoming edge.
C22_Witness ==
    /\ TypeOfShape("rectangle")
    /\ classifyInput.contentType = "start"
    /\ classifyInput.hasIncoming
    /\ nodeType.v = "process"

\* C23: a diamond is a decision for every content type and every combination of
\* edges; a parallelogram is an output exactly when its content type is output and
\* an input otherwise, whatever its edges.
C23_DiamondAndParallelogram ==
    /\ TypeOfShape("diamond") => nodeType.v = "decision"
    /\ TypeOfShape("parallelogram") =>
          nodeType.v = IF classifyInput.contentType = "output" THEN "output" ELSE "input"

\* A parallelogram whose text says start, with edges on both sides, is an input.
C23_Witness ==
    /\ TypeOfShape("parallelogram")
    /\ classifyInput.contentType = "start"
    /\ classifyInput.hasIncoming
    /\ classifyInput.hasOutgoing
    /\ nodeType.v = "input"

\* The keyword groups in their order of priority.
KeywordGroups ==
    << [category |-> "start",
        keywords |-> {"start", "begin", "initialize", "init", "launch", "commence", "open"}],
       [category |-> "end",
        keywords |-> {"end", "stop", "finish", "terminate", "exit", "close", "complete",
                      "done"}],
       [category |-> "input",
        keywords |-> {"input", "read", "enter", "get", "scan", "prompt", "ask"}],
       [category |-> "output",
        keywords |-> {"output", "print", "display", "show", "write", "say", "tell"}],
       [category |-> "decision",
        keywords |-> {"if", "while", "for", "check", "test", "compare", "?", "==", "!=", "<",
                      ">", "<=", ">="}],
       [category |-> "process",
        keywords |-> {"=", "calculate", "compute", "set", "assign", "update", "increment",
                      "decrement", "+", "-", "*", "/"}] >>

\* The groups with a keyword that occurs in the lower-cased value.
MatchingGroups(value) ==
    {g \in DOMAIN KeywordGroups :
        \E keyword \in KeywordGroups[g].keywords : includes(toLowerCase(value), keyword)}

\* The category of the first matching group, process when there is none.
FirstCategory(value) ==
    IF MatchingGroups(value) = {} THEN "process"
    ELSE KeywordGroups[Min(MatchingGroups(value))].category

\* C24 as stated: every value text, the empty one included, gets the category of
\* the first keyword group with a keyword in it, and process when there is none.
C24_FirstCategoryOfEveryValue ==
    contentDetected.st = "return" => contentDetected.v = FirstCategory(valueInput)

\* C24: every value text that is not empty gets the category of the first keyword
\* group, in the order start, end, input, output, decision, process, with a keyword
\* in the lower-cased value, and process when there is none; the empty value gets
\* unknown.
C24_FirstCategoryOfText ==
    contentDetected.st = "return" =>
        contentDetected.v = IF valueInput = "" THEN "unknown" ELSE FirstCategory(valueInput)

\* A value with an output keyword and an input keyword is an input: the input group
\* comes first.
C24_Witness ==
    /\ contentDetected.st = "return"
    /\ valueInput = "Print the input"
    /\ Cardinality(MatchingGroups(valueInput)) > 1
    /\ contentDetected.v = "input"

(***************************************************************************)
(* Properties of the nodes the extraction keeps                            *)
(***************************************************************************)
HasText(node) == node.value.some /\ trim(node.value.v) # ""

IsGroup(node) == node.style.some /\ includes(node.style.v, "group")

\* C25: a vertex cell is among the extracted nodes only if it has a value that is
\* not blank or its style has the group marker: a cell with neither is skipped,
\* with or without style attribute.
C25_ValueOrGroup ==
    \A k \in DOMAIN NodesOf(extracted) :
       HasText(NodesOf(extracted)[k]) \/ IsGroup(NodesOf(extracted)[k])

\* The filter holds of the cells that have a style attribute.
ValueOrGroupOfStyled ==
    \A k \in DOMAIN NodesOf(extracted) :
       NodesOf(extracted)[k].style.some =>
           (HasText(NodesOf(extracted)[k]) \/ IsGroup(NodesOf(extracted)[k]))

\* C29: the ids of the nodes of one extraction are pairwise different, also when
\* several vertex cells of the document have the same id.
C29_NodeIdsUnique ==
    \A j, k \in DOMAIN NodesOf(extracted) :
       NodesOf(extracted)[j].id = NodesOf(extracted)[k].id => j = k

\* The document with two cells of the id 2 gives one node of that id, the later cell.
C29_Witness ==
    /\ fixture.text = DuplicateIdDiagram
    /\ Len(NodesOf(extracted)) = 2
    /\ NodesOf(extracted)[1].id = "2"
    /\ NodesOf(extracted)[1].value = Some("B")
    /\ NodesOf(extracted)[2].id = "3"

(***************************************************************************)
(* Properties of the fallback of the extraction                            *)
(***************************************************************************)
\* The trimmed text spans of a document, in document order.
Spans(doc) ==
    Bind(TextNodes(doc.documentElement.v), LAMBDA texts :
      [i \in 1..Len(texts) |-> trim(texts[i])])

\* The cells of the document a span gives through the decoder and the parser; none
\* for a span the decoder gives no text for.
CellsOfSpan(span) ==
    Bind(decodeDiagramContent(span), LAMBDA decodedXml :
      IF decodedXml.st # "return" \/ decodedXml.v = "" THEN <<>>
      ELSE docElementsByTagName(parseFromString(decodedXml.v), "mxCell"))

\* The spans of more than 50 characters that give at least one cell.
SpansWithCells(doc) ==
    {i \in DOMAIN Spans(doc) : Len(Spans(doc)[i]) > 50 /\ CellsOfSpan(Spans(doc)[i]) # <<>>}

\* The ids of the vertex and edge cells among cells.
IdsOfCells(cells, kind) ==
    {c.v : c \in {getAttribute(cells[i], "id") :
                     i \in {j \in DOMAIN cells : getAttribute(cells[j], kind) = Some("1")}}}

IdsOf(elements) == {elements[i].id : i \in DOMAIN elements}

\* The extraction is called on a document whose working document, the document
\* itself or the first page of a diagram file, has no cell.
FallbackCase ==
    /\ extracted.st = "return"
    /\ ~docInput.null
    /\ docInput.documentElement.some
    /\ ~Unwrap(docInput).null
    /\ docElementsByTagName(Unwrap(docInput), "mxCell") = <<>>

\* C28: for a document without cells the spans of more than 50 characters are tried
\* in document order through the decoder and the parser; the result is extracted
\* from the document of the first span that gives a cell; a span of 50 characters or
\* fewer is not decoded; the result has no node and no edge when no span gives a cell.
C28_FallbackScan ==
    FallbackCase =>
        Bind(Unwrap(docInput), LAMBDA workingDoc :
          /\ ~extracted.v.null
          /\ IF SpansWithCells(workingDoc) = {}
             THEN extracted.v.nodes = <<>> /\ extracted.v.edges = <<>>
             ELSE Bind(CellsOfSpan(Spans(workingDoc)[Min(SpansWithCells(workingDoc))]),
                       LAMBDA cells :
                         /\ IdsOf(extracted.v.nodes) = IdsOfCells(cells, "vertex")
                         /\ IdsOf(extracted.v.edges) = IdsOfCells(cells, "edge")))

\* The document with a short span with a cell, then a compressed span with the cell
\* 8, then a span with the cell 7: the result holds the node 8.
C28_Witness ==
    /\ FallbackCase
    /\ fixture.text = SpanDocument(<<ShortSpan, "  " \o compress(SecondSpan) \o "  ", FirstSpan>>)
    /\ Len(Spans(docInput)) = 3
    /\ Len(Spans(docInput)[1]) <= 50
    /\ IdsOf(extracted.v.nodes) = {"8"}

(***************************************************************************)
(* Properties of the order of the issue list of analyzeFlowchart           *)
(***************************************************************************)
\* The place of the check an issue comes from: the terminal check, the connectivity
\* check, the cycle detection, the decision-branch check, the dead-end check; 0 for
\* an issue of no check.
CheckOf(issue) ==
    CASE IsStartIssue(issue) \/ IsEndIssue(issue) -> 1
      [] IsDisconnectedIssue(issue) -> 2
      [] issue = LoopIssue -> 3
      [] IsDecisionIssue(issue) -> 4
      [] IsDeadEndIssue(issue) -> 5
      [] OTHER -> 0

\* The decision nodes of the input without an outgoing edge.
DecisionsWithoutBranch(input) ==
    SelectSeq(TypedNodes(input, {"decision"}), LAMBDA node : Outgoing(input, node.id) = 0)

\* The issues are the findings of the five checks, each complete, in the order of
\* the checks, and a decision node without an outgoing edge has its branch issue and
\* its dead-end issue.
OrderedFindings(input, issues) ==
    /\ \A k \in 1..Len(issues) : CheckOf(issues[k]) # 0
    /\ \A j, k \in 1..Len(issues) : j < k => CheckOf(issues[j]) <= CheckOf(issues[k])
    /\ TerminalCheck(input, issues)
    /\ ConnectivityCheck(input, issues)
    /\ Len(SelectSeq(issues, LAMBDA issue : issue = LoopIssue))
         = (IF CycleReachable(input) THEN 1 ELSE 0)
    /\ DecisionCheck(input, issues)
    /\ DeadEndCheck(input, issues)
    /\ Bind(DecisionsWithoutBranch(input), LAMBDA nodes :
         \A n \in 1..Len(nodes) :
            /\ \E k \in 1..Len(issues) :
                  issues[k] = "Decision node \"" \o NameOf(nodes[n])
                              \o "\" should have at least two outgoing branches, but has 0."
            /\ \E k \in 1..Len(issues) :
                  issues[k] = "Decision node \"" \o NameOf(nodes[n]) \o "\" is a dead end.")

\* C26: for an input with nodes the issue list is the findings of the terminal
\* check, the connectivity check, the cycle detection, the decision-branch check and
\* the dead-end check, in this order; every check runs whatever the earlier ones
\* found, and a decision node without an outgoing edge gets both a branch issue and
\* a dead-end issue.
C26_IssuesInCheckOrder ==
    (analyzed.st # "pending" /\ HasNodes(elementsInput)) =>
        OrderedFindings(elementsInput, IssuesOf(analyzed))

\* The issues of every analysis returned are the findings of the five checks in the
\* order of the checks.
IssueOrderOfReturned ==
    Returned(analyzed) => OrderedFindings(elementsInput, analyzed.v.issues)

\* An analysis with a finding of each of four checks, a decision node without an
\* outgoing edge among its nodes.
IssueOrderReached ==
    /\ Returned(analyzed)
    /\ DecisionsWithoutBranch(elementsInput) # <<>>
    /\ {1, 2, 4, 5} \subseteq {CheckOf(analyzed.v.issues[k]) : k \in 1..Len(analyzed.v.issues)}

(***************************************************************************)
(* Properties of captureCurrentState                                       *)
(***************************************************************************)
\* The calls that got past the two checks of captureCurrentState.
AcceptedCalls == {c \in Callers : captures[c].called /\ captures[c].accepted}

\* The first usable text among readings, None when there is none.
FirstUsable(reads) ==
    Bind({i \in DOMAIN reads : Usable(reads[i].xml)}, LAMBDA usable :
      IF usable = {} THEN None ELSE reads[Min(usable)].xml)

\* The editor is read at most twice, the second time only when the first reading
\* gave no usable text and no earlier than the delay after the call.
ReadTwiceAtMost(capture) ==
    /\ Len(capture.reads) <= 2
    /\ Len(capture.reads) = 2 =>
          /\ ~Usable(capture.reads[1].xml)
          /\ capture.reads[2].at >= capture.at + RetryDelay

\* A capture is resolved with the first usable text read, and rejected only once
\* the retry has run without a usable text read.
SettledByReadOrRetry(capture) ==
    /\ capture.promise.st = "resolved" => FirstUsable(capture.reads) = Some(capture.promise.v)
    /\ capture.promise.st = "rejected" =>
          capture.timer = "fired" /\ FirstUsable(capture.reads) = None

\* Every call ends with its promise settled.
EverySettled ==
    \A c \in Callers :
       captures[c].called ~> (captures[c].called /\ captures[c].promise.st # "pending")

\* C27 as stated: for every accepted call the editor is read at most twice, the
\* second time only after a first reading without usable text and after the delay
\* of 200 ms; the capture always ends settled, resolved with the first usable text
\* read or else rejected after the single retry.
C27_SettledByReadOrRetry ==
    /\ [](\A c \in AcceptedCalls :
             ReadTwiceAtMost(captures[c]) /\ SettledByReadOrRetry(captures[c]))
    /\ EverySettled

\* C27, amended: for every accepted call the editor is read at most twice, the
\* second time only after a first reading without usable text and after the delay
\* of 200 ms; the capture always ends settled: rejected at once when the first
\* reading throws, settled by the export event that answers its exportDiagram
\* request when that event comes first, and otherwise resolved with the first
\* usable text read or rejected after the single retry.
C27_SettledByExportReadOrRetry ==
    /\ [](\A c \in AcceptedCalls :
             /\ ReadTwiceAtMost(captures[c])
             /\ captures[c].promise.by \notin {"export", "catch"}
                   => SettledByReadOrRetry(captures[c])
             /\ captures[c].promise.by = "catch"
                   => captures[c].promise.st = "rejected" /\ Len(captures[c].reads) = 1
             /\ captures[c].promise.by = "export"
                   => captures[c].promise.v \in {ExportEffect(event).v : event \in ExportEvents})
    /\ EverySettled

\* A call whose first reading gave no usable text, whose promise the export event
\* resolved, and whose retry then read the editor a second time.
C27_Witness ==
    \E c \in AcceptedCalls :
       /\ Len(captures[c].reads) = 2
       /\ captures[c].timer = "fired"
       /\ captures[c].promise.st = "resolved"
       /\ captures[c].promise.by = "export"

\* C30: the slot capturePromiseResolver is occupied only while the promise of its
\* capture is unsettled, and a call is rejected with 'A capture is already in
\* progress.' only when a capture is unsettled at the call.
C30_SlotOnlyWhileUnsettled ==
    /\ capturePromiseResolver.some =>
          captures[capturePromiseResolver.v].promise.st = "pending"
    /\ \A c \in Callers :
          (captures[c].called /\ captures[c].promise.v = "A capture is already in progress.")
             => captures[c].busy

\* The slot is occupied only while an exportDiagram request is unanswered.
SlotUntilExportEvent == capturePromiseResolver.some => exportRequests > 0

====
